---- MODULE Spec2Model ----
(***************************************************************************)
(* Verification model of the rubik package: the Piece/Cube model          *)
(* (cube.py, maths.py), the layer-by-layer Solver (solve.py), the move    *)
(* optimizer (optimize.py) and the demonstration driver (solve_cube.py).  *)
(*                                                                         *)
(* Conventions.  A Point is a triple <<x, y, z>>; Python axis index i is  *)
(* TLA+ index i+1.  A Matrix is a 9-tuple in row order.  The "no sticker" *)
(* value None is the string NoColor.  A piece object is identified by its *)
(* index in Cube.pieces (faces 1..6, edges 7..18, corners 19..26); the    *)
(* Python value None for a piece reference is index 0.                    *)
(***************************************************************************)
EXTENDS Integers, Sequences, FiniteSets, TLC

(***************************************************************************)
(* maths.py                                                                *)
(***************************************************************************)
PointAdd(a, b) == <<a[1] + b[1], a[2] + b[2], a[3] + b[3]>>

PointSub(a, b) == <<a[1] - b[1], a[2] - b[2], a[3] - b[3]>>

Dot(a, b) == a[1] * b[1] + a[2] * b[2] + a[3] * b[3]

PointCount(p, val) ==
    (IF p[1] = val THEN 1 ELSE 0) + (IF p[2] = val THEN 1 ELSE 0)
        + (IF p[3] = val THEN 1 ELSE 0)

\* Matrix.__mul__ with the third component taken from the second row: the
\* rotated pieces no longer land on distinct lattice points.
MatMulPointRowSlip(m, p) ==
    <<Dot(p, SubSeq(m, 1, 3)), Dot(p, SubSeq(m, 4, 6)), Dot(p, SubSeq(m, 4, 6))>>

\* Matrix.__mul__ with a Point: its dot product with each of Matrix.rows().
MatMulPoint(m, p) ==
    <<Dot(p, SubSeq(m, 1, 3)), Dot(p, SubSeq(m, 4, 6)), Dot(p, SubSeq(m, 7, 9))>>

(***************************************************************************)
(* cube.py: constants                                                      *)
(***************************************************************************)
RIGHT == <<1, 0, 0>>
LEFT == <<-1, 0, 0>>
UP == <<0, 1, 0>>
DOWN == <<0, -1, 0>>
FRONT == <<0, 0, 1>>
BACK == <<0, 0, -1>>
X_AXIS == RIGHT
Y_AXIS == UP
Z_AXIS == FRONT

FACE == "face"
EDGE == "edge"
CORNER == "corner"

NoColor == "None"

ROT_XY_CW == <<0, 1, 0, -1, 0, 0, 0, 0, 1>>
ROT_XY_CC == <<0, -1, 0, 1, 0, 0, 0, 0, 1>>
ROT_XZ_CW == <<0, 0, -1, 0, 1, 0, 1, 0, 0>>
ROT_XZ_CC == <<0, 0, 1, 0, 1, 0, -1, 0, 0>>
ROT_YZ_CW == <<1, 0, 0, 0, 0, 1, 0, -1, 0>>
ROT_YZ_CC == <<1, 0, 0, 0, 0, -1, 0, 1, 0>>

(***************************************************************************)
(* cube.py: Piece                                                          *)
(***************************************************************************)
\* Piece._set_piece_type: the kind is derived from colors.count(None).
PieceType(colors) ==
    IF PointCount(colors, NoColor) = 2 THEN FACE
    ELSE IF PointCount(colors, NoColor) = 1 THEN EDGE
    ELSE IF PointCount(colors, NoColor) = 0 THEN CORNER
    ELSE "invalid"

\* Piece.__init__
Piece(pos, colors) == [pos |-> pos, colors |-> colors, type |-> PieceType(colors)]

\* self.colors[i] = self.colors[j] alone: slot i takes the colour of slot
\* j, which keeps it.
SwapColorsOverwrite(colors, i, j) ==
    [k \in 1..3 |-> IF k = i THEN colors[j] ELSE colors[k]]

SwapColors(colors, i, j) ==
    [k \in 1..3 |-> IF k = i THEN colors[j] ELSE IF k = j THEN colors[i] ELSE colors[k]]

MinOf(S) == CHOOSE a \in S : \A b \in S : a <= b

MaxOf(S) == CHOOSE a \in S : \A b \in S : a >= b

\* Piece.rotate without lines 144-145: the piece moves but its colours stay
\* in the slots of the axes it left.
RotateNoSwap(p, newpos, nz) == [p EXCEPT !.pos = newpos]

\* Piece.rotate, line 145: the colours of the two nonzero axes nz swap.
RotateSwap(p, newpos, nz) ==
    [p EXCEPT !.pos = newpos, !.colors = SwapColors(p.colors, MinOf(nz), MaxOf(nz))]

\* Piece.rotate without lines 141-142: the axes are always read off the
\* displacement itself, also when only one of its entries is nonzero.
RotateByNoRecover(p, matrix, newpos, rot) ==
    IF rot = <<0, 0, 0>> THEN [p EXCEPT !.pos = newpos]
    ELSE RotateSwap(p, newpos, {i \in 1..3 : rot[i] # 0})

\* Piece.rotate, lines 139-145, rot being the displacement of the piece:
\* nothing more if rot is zero; if rot.count(0) == 2 then rot += matrix * rot;
\* the colours of the axes on which rot is then nonzero swap.
RotateBy(p, matrix, newpos, rot) ==
    IF rot = <<0, 0, 0>> THEN [p EXCEPT !.pos = newpos]
    ELSE IF PointCount(rot, 0) = 2
    THEN RotateSwap(p, newpos, {i \in 1..3 : PointAdd(rot, MatMulPoint(matrix, rot))[i] # 0})
    ELSE RotateSwap(p, newpos, {i \in 1..3 : rot[i] # 0})

\* Piece.rotate: move the piece to matrix * self.pos, then swap the colours
\* of the two axes of the rotation plane, recovered from the displacement.
Rotate(p, matrix) ==
    RotateBy(p, matrix, MatMulPoint(matrix, p.pos),
             PointSub(MatMulPoint(matrix, p.pos), p.pos))

(***************************************************************************)
(* cube.py: Cube                                                           *)
(***************************************************************************)
NumPieces == 26

\* Cube.__init__ from a sticker string (a sequence of 54 one-character
\* strings, whitespace already removed); s(k) is cube_str[k].
CubeFromStr(cube_str) ==
    LET s(k) == cube_str[k + 1]
        N == NoColor
    IN  << Piece(RIGHT, <<s(28), N, N>>),
           Piece(LEFT, <<s(22), N, N>>),
           Piece(UP, <<N, s(4), N>>),
           Piece(DOWN, <<N, s(49), N>>),
           Piece(FRONT, <<N, N, s(25)>>),
           Piece(BACK, <<N, N, s(31)>>),
           Piece(PointAdd(RIGHT, UP), <<s(16), s(5), N>>),
           Piece(PointAdd(RIGHT, DOWN), <<s(40), s(50), N>>),
           Piece(PointAdd(RIGHT, FRONT), <<s(27), N, s(26)>>),
           Piece(PointAdd(RIGHT, BACK), <<s(29), N, s(30)>>),
           Piece(PointAdd(LEFT, UP), <<s(10), s(3), N>>),
           Piece(PointAdd(LEFT, DOWN), <<s(34), s(48), N>>),
           Piece(PointAdd(LEFT, FRONT), <<s(23), N, s(24)>>),
           Piece(PointAdd(LEFT, BACK), <<s(21), N, s(32)>>),
           Piece(PointAdd(UP, FRONT), <<N, s(7), s(13)>>),
           Piece(PointAdd(UP, BACK), <<N, s(1), s(19)>>),
           Piece(PointAdd(DOWN, FRONT), <<N, s(46), s(37)>>),
           Piece(PointAdd(DOWN, BACK), <<N, s(52), s(43)>>),
           Piece(PointAdd(PointAdd(RIGHT, UP), FRONT), <<s(15), s(8), s(14)>>),
           Piece(PointAdd(PointAdd(RIGHT, UP), BACK), <<s(17), s(2), s(18)>>),
           Piece(PointAdd(PointAdd(RIGHT, DOWN), FRONT), <<s(39), s(47), s(38)>>),
           Piece(PointAdd(PointAdd(RIGHT, DOWN), BACK), <<s(41), s(53), s(42)>>),
           Piece(PointAdd(PointAdd(LEFT, UP), FRONT), <<s(11), s(6), s(12)>>),
           Piece(PointAdd(PointAdd(LEFT, UP), BACK), <<s(9), s(0), s(20)>>),
           Piece(PointAdd(PointAdd(LEFT, DOWN), FRONT), <<s(35), s(45), s(36)>>),
           Piece(PointAdd(PointAdd(LEFT, DOWN), BACK), <<s(33), s(51), s(44)>> ) >>

\* Cube._from_cube: a new Piece is built for every piece of c.
CubeFromCube(c) == [k \in 1..Len(c) |-> Piece(c[k].pos, c[k].colors)]

\* Cube._face keeping the pieces whose dot product is not negative.
FaceOfNonNegative(c, axis) == {k \in 1..Len(c) : Dot(c[k].pos, axis) >= 0}

\* Cube._face: indices of the pieces with a positive dot product.
FaceOf(c, axis) == {k \in 1..Len(c) : Dot(c[k].pos, axis) > 0}

\* Cube._slice keeping the pieces whose coordinate is 0 or less on the axis
\* where the plane is 0.
SliceOfNonPositive(c, plane) ==
    LET i == CHOOSE a \in 1..3 : plane[a] = 0 /\ \A b \in 1..3 : plane[b] = 0 => a <= b
    IN  {k \in 1..Len(c) : c[k].pos[i] <= 0}

\* Cube._slice: indices of the pieces whose coordinate is 0 on the axis
\* where the plane is 0.
SliceOf(c, plane) ==
    LET i == CHOOSE a \in 1..3 : plane[a] = 0 /\ \A b \in 1..3 : plane[b] = 0 => a <= b
    IN  {k \in 1..Len(c) : c[k].pos[i] = 0}

\* Cube._rotate_pieces rotating every piece of the cube, whatever the
\* list it is given.
RotatePiecesAll(c, pieces, matrix) == [k \in 1..Len(c) |-> Rotate(c[k], matrix)]

\* Cube._rotate_pieces
RotatePieces(c, pieces, matrix) ==
    [k \in 1..Len(c) |-> IF k \in pieces THEN Rotate(c[k], matrix) ELSE c[k]]

MoveNames ==
    {"L", "Li", "R", "Ri", "U", "Ui", "D", "Di", "F", "Fi", "B", "Bi",
     "M", "Mi", "E", "Ei", "S", "Si", "X", "Xi", "Y", "Yi", "Z", "Zi"}

\* The 24 move methods Cube.L .. Cube.Zi: what each rotates (a face, a
\* slice or all pieces), the face axis or slice plane, and the matrix.
MoveDef(name) ==
    CASE name = "L" -> <<"face", LEFT, ROT_YZ_CC>>
      [] name = "Li" -> <<"face", LEFT, ROT_YZ_CW>>
      [] name = "R" -> <<"face", RIGHT, ROT_YZ_CW>>
      [] name = "Ri" -> <<"face", RIGHT, ROT_YZ_CC>>
      [] name = "U" -> <<"face", UP, ROT_XZ_CW>>
      [] name = "Ui" -> <<"face", UP, ROT_XZ_CC>>
      [] name = "D" -> <<"face", DOWN, ROT_XZ_CC>>
      [] name = "Di" -> <<"face", DOWN, ROT_XZ_CW>>
      [] name = "F" -> <<"face", FRONT, ROT_XY_CW>>
      [] name = "Fi" -> <<"face", FRONT, ROT_XY_CC>>
      [] name = "B" -> <<"face", BACK, ROT_XY_CC>>
      [] name = "Bi" -> <<"face", BACK, ROT_XY_CW>>
      [] name = "M" -> <<"slice", PointAdd(Y_AXIS, Z_AXIS), ROT_YZ_CC>>
      [] name = "Mi" -> <<"slice", PointAdd(Y_AXIS, Z_AXIS), ROT_YZ_CW>>
      [] name = "E" -> <<"slice", PointAdd(X_AXIS, Z_AXIS), ROT_XZ_CC>>
      [] name = "Ei" -> <<"slice", PointAdd(X_AXIS, Z_AXIS), ROT_XZ_CW>>
      [] name = "S" -> <<"slice", PointAdd(X_AXIS, Y_AXIS), ROT_XY_CW>>
      [] name = "Si" -> <<"slice", PointAdd(X_AXIS, Y_AXIS), ROT_XY_CC>>
      [] name = "X" -> <<"all", <<0, 0, 0>>, ROT_YZ_CW>>
      [] name = "Xi" -> <<"all", <<0, 0, 0>>, ROT_YZ_CC>>
      [] name = "Y" -> <<"all", <<0, 0, 0>>, ROT_XZ_CW>>
      [] name = "Yi" -> <<"all", <<0, 0, 0>>, ROT_XZ_CC>>
      [] name = "Z" -> <<"all", <<0, 0, 0>>, ROT_XY_CW>>
      [] name = "Zi" -> <<"all", <<0, 0, 0>>, ROT_XY_CC>>

\* Calling a move method, d being its entry in MoveDef: _rotate_face,
\* _rotate_slice, or _rotate_pieces on all the pieces.
CallMove(c, d) ==
    CASE d[1] = "face" -> RotatePieces(c, FaceOf(c, d[2]), d[3])
      [] d[1] = "slice" -> RotatePieces(c, SliceOf(c, d[2]), d[3])
      [] d[1] = "all" -> RotatePieces(c, 1..Len(c), d[3])

\* Cube.Li turning the left face the way Cube.L does.
ApplyMoveSameSense(c, name) == CallMove(c, MoveDef(IF name = "Li" THEN "L" ELSE name))

\* Cube.E turning the y = 0 slice with the matrix of Cube.M.
ApplyMoveWrongMatrix(c, name) ==
    CallMove(c, IF name = "E" THEN <<"slice", PointAdd(X_AXIS, Z_AXIS), ROT_YZ_CC>>
                ELSE MoveDef(name))

\* Cube.X turning the right face only, as Cube.R does.
ApplyMoveXAsFace(c, name) == CallMove(c, MoveDef(IF name = "X" THEN "R" ELSE name))

\* Cube.S turning the z = 0 slice the way Cube.B turns the back face.
ApplyMoveSLikeB(c, name) ==
    CallMove(c, IF name = "S" THEN <<"slice", PointAdd(X_AXIS, Y_AXIS), ROT_XY_CC>>
                ELSE MoveDef(name))

\* Calling the move method of the given name.
ApplyMove(c, name) == CallMove(c, MoveDef(name))

\* Cube.sequence, lines 308-310: the loop over the move methods, at most n
\* more iterations; w holds the cube and the number of moves done.
RECURSIVE SequenceRun(_, _, _)
SequenceRun(w, moves, n) ==
    IF n = 0 \/ w.done = Len(moves) THEN w
    ELSE SequenceRun([cube |-> ApplyMove(w.cube, moves[w.done + 1]),
                      done |-> w.done + 1],
                     moves, n - 1)

\* Cube.sequence, lines 308-310: the loop run to its end.
RECURSIVE SequenceFrom(_, _)
SequenceFrom(w, moves) ==
    IF w.done = Len(moves) THEN w.cube
    ELSE SequenceFrom(SequenceRun(w, moves, 30), moves)

\* Cube.sequence on a list of move names (the split move string).
CubeSequence(c, moves) == SequenceFrom([cube |-> c, done |-> 0], moves)

\* The first of the given piece indices, 0 (None) when there is none.
FirstOf(hits) == IF hits = {} THEN 0 ELSE MinOf(hits)

\* Cube.find_piece with any() for all(): the first piece of the right kind
\* holding one of the given colours.
FindPieceAnyColor(c, colors) ==
    LET has(k) == /\ PointCount(c[k].colors, NoColor) = 3 - Len(colors)
                  /\ \E n \in 1..Len(colors) :
                        \E a \in 1..3 : c[k].colors[a] = colors[n]
    IN  IF \E n \in 1..Len(colors) : colors[n] = NoColor THEN 0
        ELSE FirstOf({k \in 1..Len(c) : has(k)})

\* Cube.find_piece: the first piece, in the order of Cube.pieces, holding
\* all the given colours and as many empty slots as 3 - len(colors);
\* 0 stands for None.
FindPiece(c, colors) ==
    LET has(k) == /\ PointCount(c[k].colors, NoColor) = 3 - Len(colors)
                  /\ \A n \in 1..Len(colors) :
                        \E a \in 1..3 : c[k].colors[a] = colors[n]
    IN  IF \E n \in 1..Len(colors) : colors[n] = NoColor THEN 0
        ELSE FirstOf({k \in 1..Len(c) : has(k)})

\* Cube.get_piece: the first piece at the given point; 0 stands for None.
GetPiece(c, point) == FirstOf({k \in 1..Len(c) : c[k].pos = point})

\* Centre colour accessors.
left_color(c) == c[GetPiece(c, LEFT)].colors[1]
right_color(c) == c[GetPiece(c, RIGHT)].colors[1]
up_color(c) == c[GetPiece(c, UP)].colors[2]
down_color(c) == c[GetPiece(c, DOWN)].colors[2]
front_color(c) == c[GetPiece(c, FRONT)].colors[3]
back_color(c) == c[GetPiece(c, BACK)].colors[3]

\* sorted(face, key) with a key of one component, the coordinate along k1:
\* the pieces of a row keep the order of Cube.pieces.
SortedByOneKey(c, face, k1, k2) ==
    LET key == [k \in face |-> Dot(c[k].pos, k1)]
        rank == [k \in face |->
                    Cardinality({a \in face : key[a] < key[k] \/ (key[a] = key[k] /\ a < k)}) + 1]
    IN  [r \in 1..Cardinality(face) |-> CHOOSE k \in face : rank[k] = r]

\* sorted(face, key): the pieces of a face ordered by a two-component key,
\* each component being the coordinate of the piece along the direction k1
\* or k2; the sort is stable, so equal keys keep the order of Cube.pieces.
SortedBy(c, face, k1, k2) ==
    LET key == [k \in face |-> 3 * (Dot(c[k].pos, k1) + 1) + (Dot(c[k].pos, k2) + 1)]
        rank == [k \in face |->
                    Cardinality({a \in face : key[a] < key[k] \/ (key[a] = key[k] /\ a < k)}) + 1]
    IN  [r \in 1..Cardinality(face) |-> CHOOSE k \in face : rank[k] = r]

\* Cube._color_list: the sticker colours in unfolded-net order; a key
\* p.x is the coordinate along RIGHT, -p.x along LEFT, and so on.
ColorList(c) ==
    LET col(order, a) == [r \in 1..Len(order) |-> c[order[r]].colors[a]]
        Net(up, left, front, right, back, down) ==
            up \o SubSeq(left, 1, 3) \o SubSeq(front, 1, 3)
               \o SubSeq(right, 1, 3) \o SubSeq(back, 1, 3)
               \o SubSeq(left, 4, 6) \o SubSeq(front, 4, 6)
               \o SubSeq(right, 4, 6) \o SubSeq(back, 4, 6)
               \o SubSeq(left, 7, 9) \o SubSeq(front, 7, 9)
               \o SubSeq(right, 7, 9) \o SubSeq(back, 7, 9) \o down
    IN  Net(col(SortedBy(c, FaceOf(c, UP), FRONT, RIGHT), 2),
            col(SortedBy(c, FaceOf(c, LEFT), DOWN, FRONT), 1),
            col(SortedBy(c, FaceOf(c, FRONT), DOWN, RIGHT), 3),
            col(SortedBy(c, FaceOf(c, RIGHT), DOWN, BACK), 1),
            col(SortedBy(c, FaceOf(c, BACK), DOWN, LEFT), 3),
            col(SortedBy(c, FaceOf(c, DOWN), BACK, RIGHT), 2))

CubeEq(a, b) == ColorList(a) = ColorList(b)

\* Cube.is_solved reading colors[0] of the pieces of the front face.
IsSolvedFrontBySlotX(c) ==
    LET check(face, a) == \A k \in face : \A h \in face : c[k].colors[a] = c[h].colors[a]
    IN  /\ check(FaceOf(c, FRONT), 1)
        /\ check(FaceOf(c, BACK), 3)
        /\ check(FaceOf(c, UP), 2)
        /\ check(FaceOf(c, DOWN), 2)
        /\ check(FaceOf(c, LEFT), 1)
        /\ check(FaceOf(c, RIGHT), 1)

\* Cube.is_solved: on each face the nine stickers of the face's axis agree.
IsSolved(c) ==
    LET check(face, a) == \A k \in face : \A h \in face : c[k].colors[a] = c[h].colors[a]
    IN  /\ check(FaceOf(c, FRONT), 3)
        /\ check(FaceOf(c, BACK), 3)
        /\ check(FaceOf(c, UP), 2)
        /\ check(FaceOf(c, DOWN), 2)
        /\ check(FaceOf(c, LEFT), 1)
        /\ check(FaceOf(c, RIGHT), 1)

\* A string taken as it is, whitespace included.
RemoveWhitespaceNone(s) == s

\* "".join(x for x in s if x not in string.whitespace), in Cube.__init__
\* and in Cube.flat_str.
RemoveWhitespace(s) ==
    LET NotWhitespace(x) == x \notin {" ", "\t", "\n", "\r", "\f"}
    IN  SelectSeq(s, NotWhitespace)

\* Cube.flat_str: the characters of str(self) that are not whitespace,
\* str(self) being the template of Cube.__str__ filled with _color_list().
FlatStr(c) ==
    LET l == ColorList(c)
        pad == <<" ", " ", " ", " ">>
        one(a) == pad \o SubSeq(l, a, a + 2)
        four(a) ==
            SubSeq(l, a, a + 2) \o <<" ">> \o SubSeq(l, a + 3, a + 5) \o <<" ">>
                \o SubSeq(l, a + 6, a + 8) \o <<" ">> \o SubSeq(l, a + 9, a + 11)
        nl == <<"\n">>
        text ==
            one(1) \o nl \o one(4) \o nl \o one(7) \o nl
                \o four(10) \o nl \o four(22) \o nl \o four(34) \o nl
                \o one(46) \o nl \o one(49) \o nl \o one(52)
    IN  RemoveWhitespace(text)

\* Cube.sequence looking each token up only when its turn to be called
\* comes: the moves before a token that names nothing are made.
SequenceCallLazy(c, tokens) ==
    LET stop == FirstOf({k \in 1..Len(tokens) :
                            tokens[k] \notin MoveNames \cup {"is_solved", "flat_str", "colors"}})
        called == IF stop = 0 THEN tokens ELSE SubSeq(tokens, 1, stop - 1)
        IsMove(x) == x \in MoveNames
    IN  [cube |-> CubeSequence(c, SelectSeq(called, IsMove)),
         st |-> IF stop = 0 THEN "ok"
                ELSE IF tokens[stop] \in {"pieces", "faces", "edges", "corners",
                                          "sequence", "get_piece"}
                THEN "type"
                ELSE "attr"]

\* Cube.sequence on any list of tokens (the split move string).  Line 308
\* looks every token up with getattr before anything is called: a token that
\* names no attribute of the Cube raises AttributeError ("attr") and no move
\* is made.  Lines 309-310 then call the attributes in order: a move method
\* turns the cube, another method that takes no argument returns without
\* touching the pieces, and an attribute that is not callable or needs
\* arguments raises TypeError ("type") after the calls before it.
SequenceCall(c, tokens) ==
    LET Attr(name) ==
            IF name \in MoveNames THEN "move"
            ELSE IF name \in {"is_solved", "flat_str", "colors"} THEN "method"
            ELSE IF name \in {"pieces", "faces", "edges", "corners", "sequence", "get_piece"}
            THEN "other"
            ELSE "missing"
        stop == FirstOf({k \in 1..Len(tokens) : Attr(tokens[k]) = "other"})
        called == IF stop = 0 THEN tokens ELSE SubSeq(tokens, 1, stop - 1)
        IsMove(x) == x \in MoveNames
    IN  IF \E k \in 1..Len(tokens) : Attr(tokens[k]) = "missing"
        THEN [cube |-> c, st |-> "attr"]
        ELSE [cube |-> CubeSequence(c, SelectSeq(called, IsMove)),
              st |-> IF stop = 0 THEN "ok" ELSE "type"]

(***************************************************************************)
(* solve_cube.py                                                           *)
(***************************************************************************)
Rep(ch, n) == [k \in 1..n |-> ch]

SOLVED_CUBE_STR ==
    LET row == Rep("Y", 3) \o Rep("W", 3) \o Rep("G", 3) \o Rep("B", 3)
    IN  Rep("O", 9) \o row \o row \o row \o Rep("R", 9)

(***************************************************************************)
(* solve.py: Solver.  A solver value is a record holding the owned cube,  *)
(* the move record, the cached centre pieces and an outcome st:           *)
(*   "ok"          still running / returned normally                       *)
(*   "stuck"       Exception("Stuck in loop ...") at the iteration ceiling *)
(*   "bug"         Exception("BUG!!") / Exception("Bug: ...")              *)
(*   "assert"      a failed assert statement                               *)
(*   "attr"        AttributeError: a piece reference that is None          *)
(*   "type"        TypeError: unpacking None from get_rot_from_face        *)
(*   "hang"        an unguarded while loop came back to the cube it        *)
(*                 started from with its condition still true, so the     *)
(*                 loop never exits                                        *)
(* Move strings are held as the token lists that str.split() yields.      *)
(* Statements that follow one another are operators applied to the solver *)
(* left by the statement before; once st is not "ok" every later          *)
(* statement leaves the solver as it is.                                   *)
(***************************************************************************)
inifinite_loop_max_iterations == 12

\* cube.get_rot_from_face: <<cw, cc>>, or <<>> for None.
GetRotFromFace(face) ==
    CASE face = RIGHT -> <<"R", "Ri">>
      [] face = LEFT -> <<"L", "Li">>
      [] face = UP -> <<"U", "Ui">>
      [] face = DOWN -> <<"D", "Di">>
      [] face = FRONT -> <<"F", "Fi">>
      [] face = BACK -> <<"B", "Bi">>
      [] OTHER -> <<>>

\* Solver.__init__
SolverInit(c) ==
    [cube |-> c, moves |-> <<>>, st |-> "ok",
     left_piece |-> FindPiece(c, <<left_color(c)>>),
     right_piece |-> FindPiece(c, <<right_color(c)>>),
     up_piece |-> FindPiece(c, <<up_color(c)>>),
     down_piece |-> FindPiece(c, <<down_color(c)>>)]

Ok(s) == s.st = "ok"

Fail(s, e) == IF Ok(s) THEN [s EXCEPT !.st = e] ELSE s

\* Solver.move applying the whole string but recording its first name only.
MoveRecordFirst(s, move_str) ==
    IF Ok(s)
    THEN [s EXCEPT !.moves = @ \o SubSeq(move_str, 1, 1), !.cube = CubeSequence(@, move_str)]
    ELSE s

\* Solver.move: extend the record, then apply the moves to the cube.
Move(s, move_str) ==
    IF Ok(s)
    THEN [s EXCEPT !.moves = @ \o move_str, !.cube = CubeSequence(@, move_str)]
    ELSE s

\* for _ in range(n): self.move(move_str)
RECURSIVE MoveTimes(_, _, _)
MoveTimes(s, move_str, n) ==
    IF n <= 0 THEN s ELSE MoveTimes(Move(s, move_str), move_str, n - 1)

\* --- Cross ---
\* _cross_left_or_right, lines 101-110: an edge of the middle layer; yields
\* the solver and the undo move.
CrossBringMiddle(s, ep, rots) ==
    IF rots = <<>> THEN [s |-> Fail(s, "type"), undo |-> <<>>]
    ELSE IF ep \in {PointAdd(LEFT, UP), PointAdd(RIGHT, DOWN)}
    THEN [s |-> Move(s, <<rots[1]>>), undo |-> <<rots[2]>>]
    ELSE [s |-> Move(s, <<rots[2]>>), undo |-> <<rots[1]>>]

\* _cross_left_or_right, lines 118-119: the undo move (<<>> for None).
CrossBringUndo(s1, edge_piece, face_piece, rots) ==
    IF s1.cube[edge_piece].pos[1] # s1.cube[face_piece].pos[1]
    THEN [s |-> s1, undo |-> <<rots[1], rots[1]>>]
    ELSE [s |-> s1, undo |-> <<>>]

\* _cross_left_or_right, lines 111-119: an edge of the front layer.
CrossBringFront(s, edge_piece, face_piece, rots) ==
    IF rots = <<>> THEN [s |-> Fail(s, "type"), undo |-> <<>>]
    ELSE CrossBringUndo(Move(s, <<rots[2], rots[2]>>), edge_piece, face_piece, rots)

\* _cross_left_or_right, lines 100-119, for the edge at position ep.
CrossBringFrom(s, edge_piece, face_piece, ep) ==
    IF ep[3] = 0 THEN CrossBringMiddle(s, ep, GetRotFromFace(<<0, ep[2], ep[3]>>))
    ELSE IF ep[3] = 1
    THEN CrossBringFront(s, edge_piece, face_piece, GetRotFromFace(<<ep[1], ep[2], 0>>))
    ELSE [s |-> s, undo |-> <<>>]

\* _cross_left_or_right, lines 100-119: bring the edge to the z = -1 layer.
CrossBring(s, edge_piece, face_piece) ==
    CrossBringFrom(s, edge_piece, face_piece, s.cube[edge_piece].pos)

\* _cross_left_or_right, line 121: assert edge_piece.pos.z == -1
CrossAssertBack(s, edge_piece) ==
    IF Ok(s) /\ s.cube[edge_piece].pos[3] # -1 THEN Fail(s, "assert") ELSE s

\* _cross_left_or_right, lines 123-128: turn the back face until the edge is
\* on the target face, at most inifinite_loop_max_iterations times.
RECURSIVE CrossAlign(_, _, _, _)
CrossAlign(s, edge_piece, face_piece, count) ==
    IF ~Ok(s) THEN s
    ELSE IF SubSeq(s.cube[edge_piece].pos, 1, 2) = SubSeq(s.cube[face_piece].pos, 1, 2) THEN s
    ELSE IF count + 1 >= inifinite_loop_max_iterations
    THEN Fail(Move(s, <<"B">>), "stuck")
    ELSE CrossAlign(Move(s, <<"B">>), edge_piece, face_piece, count + 1)

\* _cross_left_or_right, lines 130-131: if undo_move: self.move(undo_move)
CrossUndo(s, undo) == IF undo # <<>> THEN Move(s, undo) ELSE s

\* _cross_left_or_right, lines 133-136: orient the edge.
CrossOrient(s, edge_piece, face_color, move_1, move_2) ==
    IF ~Ok(s) THEN s
    ELSE Move(s, IF s.cube[edge_piece].colors[1] = face_color THEN move_1 ELSE move_2)

\* _cross_left_or_right, lines 121-136, after the edge was brought back (b).
CrossPlace(b, edge_piece, face_piece, face_color, move_1, move_2) ==
    CrossOrient(
        CrossUndo(CrossAlign(CrossAssertBack(b.s, edge_piece), edge_piece, face_piece, 0),
                  b.undo),
        edge_piece, face_color, move_1, move_2)

\* Solver._cross_left_or_right
CrossLeftOrRight(s, edge_piece, face_piece, face_color, move_1, move_2) ==
    IF ~Ok(s) THEN s
    ELSE IF edge_piece = 0 \/ face_piece = 0 THEN Fail(s, "attr")
    ELSE IF /\ s.cube[edge_piece].pos
                  = <<s.cube[face_piece].pos[1], s.cube[face_piece].pos[2], 1>>
            /\ s.cube[edge_piece].colors[3] = front_color(s.cube)
    THEN s
    ELSE CrossPlace(CrossBring(s, edge_piece, face_piece),
                    edge_piece, face_piece, face_color, move_1, move_2)

\* cross, lines 85 and 89: the call with left_color, "L L", "E L Ei Li";
\* lines 86 and 90: the call with right_color, "R R", "Ei R E Ri".
CrossSide(s, edge_piece, face_piece, side) ==
    IF side = "left"
    THEN CrossLeftOrRight(s, edge_piece, face_piece, left_color(s.cube),
                          <<"L", "L">>, <<"E", "L", "Ei", "Li">>)
    ELSE CrossLeftOrRight(s, edge_piece, face_piece, right_color(s.cube),
                          <<"R", "R">>, <<"Ei", "R", "E", "Ri">>)

\* cross, lines 85-91, given the four edges found in lines 80-83.
CrossWith(s, fl_piece, fr_piece, fu_piece, fd_piece) ==
    Move(CrossSide(
            CrossSide(
                Move(CrossSide(CrossSide(s, fl_piece, s.left_piece, "left"),
                               fr_piece, s.right_piece, "right"),
                     <<"Z">>),
                fd_piece, s.down_piece, "left"),
            fu_piece, s.up_piece, "right"),
         <<"Zi">>)

\* find_piece(front_color(), other): an edge of the front colour.
FrontEdge(c, other) == FindPiece(c, <<front_color(c), other>>)

\* find_piece(front_color(), a, b): a corner of the front colour.
FrontCorner(c, a, b) == FindPiece(c, <<front_color(c), a, b>>)

\* Solver.cross
Cross(s) ==
    CrossWith(s, FrontEdge(s.cube, left_color(s.cube)),
                 FrontEdge(s.cube, right_color(s.cube)),
                 FrontEdge(s.cube, up_color(s.cube)),
                 FrontEdge(s.cube, down_color(s.cube)))

\* --- Cross corners ---
\* place_frd_corner: while corner_piece.pos.z != -1: self.move(mv); count += 1
\* (lines 167-169 and 175-177, no iteration ceiling).  entry is the cube at
\* loop entry; yields the solver and count.
RECURSIVE CornerToBack(_, _, _, _, _)
CornerToBack(s, corner_piece, mv, count, entry) ==
    IF ~Ok(s) THEN [s |-> s, count |-> count]
    ELSE IF s.cube[corner_piece].pos[3] = -1 THEN [s |-> s, count |-> count]
    ELSE IF count > 0 /\ s.cube = entry THEN [s |-> Fail(s, "hang"), count |-> count]
    ELSE CornerToBack(Move(s, <<mv>>), corner_piece, mv, count + 1, entry)

\* place_frd_corner, lines 180-182: one back turn, then undo_move count times.
CornerRestore(w, undo_move) ==
    MoveTimes(Move(w.s, <<"B">>), <<undo_move>>, w.count)

\* place_frd_corner, lines 174-178: the second loop, from the solver s.
CornerOtherWay(s, corner_piece, cw, cc) ==
    CornerRestore(CornerToBack(s, corner_piece, cc, 0, s.cube), cw)

\* place_frd_corner, lines 170-182, w being the outcome of the first loop.
CornerFirstWay(w, corner_piece, cw, cc) ==
    IF w.count > 1
    THEN CornerOtherWay(MoveTimes(w.s, <<cc>>, w.count), corner_piece, cw, cc)
    ELSE CornerRestore(w, cc)

\* place_frd_corner, lines 163-182.
CornerOutBy(s, corner_piece, rots) ==
    IF rots = <<>> THEN Fail(s, "type")
    ELSE CornerFirstWay(CornerToBack(s, corner_piece, rots[1], 0, s.cube),
                        corner_piece, rots[1], rots[2])

\* place_frd_corner, lines 160-182: rotate the corner out of the front layer.
CornerOut(s, corner_piece) ==
    IF s.cube[corner_piece].pos[3] # 1 THEN s
    ELSE CornerOutBy(s, corner_piece,
                     GetRotFromFace(<<0, s.cube[corner_piece].pos[2], 0>>))

\* place_frd_corner, lines 184-185: turn the back face until the corner is
\* below its destination (no iteration ceiling).
RECURSIVE CornerBelow(_, _, _, _, _, _)
CornerBelow(s, corner_piece, right_piece, down_piece, n, entry) ==
    IF ~Ok(s) THEN s
    ELSE IF right_piece = 0 \/ down_piece = 0 THEN Fail(s, "attr")
    ELSE IF SubSeq(s.cube[corner_piece].pos, 1, 2)
              = <<s.cube[right_piece].pos[1], s.cube[down_piece].pos[2]>>
    THEN s
    ELSE IF n > 0 /\ s.cube = entry THEN Fail(s, "hang")
    ELSE CornerBelow(Move(s, <<"B">>), corner_piece, right_piece, down_piece,
                     n + 1, entry)

\* place_frd_corner, lines 184-185, from the solver s.
CornerBelowFrom(s, corner_piece, right_piece, down_piece) ==
    CornerBelow(s, corner_piece, right_piece, down_piece, 0, s.cube)

\* Lines 187-192 of place_frd_corner with the first two algorithms exchanged.
CornerOrientSwapped(s, corner_piece, front_col) ==
    IF ~Ok(s) THEN s
    ELSE Move(s, IF s.cube[corner_piece].colors[1] = front_col
                 THEN <<"Bi", "Ri", "B", "R">>
                 ELSE IF s.cube[corner_piece].colors[2] = front_col
                 THEN <<"B", "D", "Bi", "Di">>
                 ELSE <<"Ri", "B", "B", "R", "Bi", "Bi", "D", "Bi", "Di">>)

\* place_frd_corner, lines 187-192: the three orientations of a corner.
CornerOrient(s, corner_piece, front_col) ==
    IF ~Ok(s) THEN s
    ELSE Move(s, IF s.cube[corner_piece].colors[1] = front_col
                 THEN <<"B", "D", "Bi", "Di">>
                 ELSE IF s.cube[corner_piece].colors[2] = front_col
                 THEN <<"Bi", "Ri", "B", "R">>
                 ELSE <<"Ri", "B", "B", "R", "Bi", "Bi", "D", "Bi", "Di">>)

\* Solver.place_frd_corner
PlaceFrdCorner(s, corner_piece, right_piece, down_piece, front_col) ==
    IF ~Ok(s) THEN s
    ELSE IF corner_piece = 0 THEN Fail(s, "attr")
    ELSE CornerOrient(
            CornerBelowFrom(CornerOut(s, corner_piece),
                            corner_piece, right_piece, down_piece),
            corner_piece, front_col)

\* cross_corners: one place_frd_corner call followed by self.move("Z").
PlaceCornerThenZ(s, corner_piece, right_piece, down_piece) ==
    Move(PlaceFrdCorner(s, corner_piece, right_piece, down_piece, front_color(s.cube)),
         <<"Z">>)

\* cross_corners, lines 148-155, given the corners found in lines 143-146.
CrossCornersWith(s, fld_piece, flu_piece, frd_piece, fru_piece) ==
    PlaceCornerThenZ(
        PlaceCornerThenZ(
            PlaceCornerThenZ(
                PlaceCornerThenZ(s, frd_piece, s.right_piece, s.down_piece),
                fru_piece, s.up_piece, s.right_piece),
            flu_piece, s.left_piece, s.up_piece),
        fld_piece, s.down_piece, s.left_piece)

\* Solver.cross_corners
CrossCorners(s) ==
    CrossCornersWith(s,
        FrontCorner(s.cube, left_color(s.cube), down_color(s.cube)),
        FrontCorner(s.cube, left_color(s.cube), up_color(s.cube)),
        FrontCorner(s.cube, right_color(s.cube), down_color(s.cube)),
        FrontCorner(s.cube, right_color(s.cube), up_color(s.cube)))

\* --- Middle layer ---
\* place_middle_layer_ld_edge, lines 216-218:
\* while (x, y) != (-1, -1): self.move("Z"); count += 1 (no ceiling).
RECURSIVE EdgeToLeftDown(_, _, _, _)
EdgeToLeftDown(s, ld_piece, count, entry) ==
    IF ~Ok(s) THEN [s |-> s, count |-> count]
    ELSE IF SubSeq(s.cube[ld_piece].pos, 1, 2) = <<-1, -1>> THEN [s |-> s, count |-> count]
    ELSE IF count > 0 /\ s.cube = entry THEN [s |-> Fail(s, "hang"), count |-> count]
    ELSE EdgeToLeftDown(Move(s, <<"Z">>), ld_piece, count + 1, entry)

\* place_middle_layer_ld_edge, lines 219-221.
EdgeLift(w) ==
    MoveTimes(Move(w.s, <<"B", "L", "Bi", "Li", "Bi", "Di", "B", "D">>),
              <<"Zi">>, w.count)

\* while ld_piece.pos[axis] != -1: self.move("B") (lines 225-226 and
\* 230-231, no ceiling); axis is the TLA+ index of the coordinate.
RECURSIVE EdgeTurnBack(_, _, _, _, _)
EdgeTurnBack(s, ld_piece, axis, n, entry) ==
    IF ~Ok(s) THEN s
    ELSE IF s.cube[ld_piece].pos[axis] = -1 THEN s
    ELSE IF n > 0 /\ s.cube = entry THEN Fail(s, "hang")
    ELSE EdgeTurnBack(Move(s, <<"B">>), ld_piece, axis, n + 1, entry)

\* place_middle_layer_ld_edge, lines 222-234.
EdgeInsert(s, ld_piece, left_col, down_col) ==
    IF ~Ok(s) THEN s
    ELSE IF s.cube[ld_piece].pos[3] # -1 THEN Fail(s, "assert")
    ELSE IF s.cube[ld_piece].colors[3] = left_col
    THEN Move(EdgeTurnBack(s, ld_piece, 2, 0, s.cube),
              <<"B", "L", "Bi", "Li", "Bi", "Di", "B", "D">>)
    ELSE IF s.cube[ld_piece].colors[3] = down_col
    THEN Move(EdgeTurnBack(s, ld_piece, 1, 0, s.cube),
              <<"Bi", "Di", "B", "D", "B", "L", "Bi", "Li">>)
    ELSE Fail(s, "bug")

\* Solver.place_middle_layer_ld_edge
PlaceMiddleLayerLdEdge(s, ld_piece, left_col, down_col) ==
    IF ~Ok(s) THEN s
    ELSE IF ld_piece = 0 THEN Fail(s, "attr")
    ELSE IF s.cube[ld_piece].pos[3] = 0
    THEN EdgeInsert(EdgeLift(EdgeToLeftDown(s, ld_piece, 0, s.cube)),
                    ld_piece, left_col, down_col)
    ELSE EdgeInsert(s, ld_piece, left_col, down_col)

\* second_layer: one place_middle_layer_ld_edge call, then self.move("Z").
PlaceEdgeThenZ(s, edge_piece) ==
    Move(PlaceMiddleLayerLdEdge(s, edge_piece, left_color(s.cube), down_color(s.cube)),
         <<"Z">>)

\* second_layer, lines 202-209, given the edges found in lines 197-200.
SecondLayerWith(s, rd_piece, ru_piece, ld_piece, lu_piece) ==
    PlaceEdgeThenZ(
        PlaceEdgeThenZ(PlaceEdgeThenZ(PlaceEdgeThenZ(s, ld_piece), rd_piece), ru_piece),
        lu_piece)

\* Solver.second_layer
SecondLayer(s) ==
    SecondLayerWith(s,
        FindPiece(s.cube, <<right_color(s.cube), down_color(s.cube)>>),
        FindPiece(s.cube, <<right_color(s.cube), up_color(s.cube)>>),
        FindPiece(s.cube, <<left_color(s.cube), down_color(s.cube)>>),
        FindPiece(s.cube, <<left_color(s.cube), up_color(s.cube)>>))

\* self.cube[x, y, z].colors[a] == self.cube.front_color()
ShowsFront(c, point, a) == c[GetPiece(c, point)].colors[a] = front_color(c)

\* --- Last layer edges (back face) ---
\* back_face_edges: the local predicates state1 .. state4 (n = 1..4).
BackEdgesState(c, n) ==
    CASE n = 1 -> /\ ShowsFront(c, <<0, 1, 1>>, 3)
                  /\ ShowsFront(c, <<-1, 0, 1>>, 3)
                  /\ ShowsFront(c, <<0, -1, 1>>, 3)
                  /\ ShowsFront(c, <<1, 0, 1>>, 3)
      [] n = 2 -> ShowsFront(c, <<0, 1, 1>>, 3) /\ ShowsFront(c, <<-1, 0, 1>>, 3)
      [] n = 3 -> ShowsFront(c, <<-1, 0, 1>>, 3) /\ ShowsFront(c, <<1, 0, 1>>, 3)
      [] n = 4 -> /\ ~ShowsFront(c, <<0, 1, 1>>, 3)
                  /\ ~ShowsFront(c, <<-1, 0, 1>>, 3)
                  /\ ~ShowsFront(c, <<0, -1, 1>>, 3)
                  /\ ~ShowsFront(c, <<1, 0, 1>>, 3)

\* back_face_edges, lines 261-266: the move of one iteration.
BackEdgesMove(c) ==
    IF BackEdgesState(c, 4) \/ BackEdgesState(c, 2)
    THEN <<"D", "F", "R", "Fi", "Ri", "Di">>
    ELSE IF BackEdgesState(c, 3)
    THEN <<"D", "R", "F", "Ri", "Fi", "Di">>
    ELSE <<"F">>

\* back_face_edges, lines 259-269
RECURSIVE BackFaceEdgesLoop(_, _)
BackFaceEdgesLoop(s, count) ==
    IF ~Ok(s) THEN s
    ELSE IF BackEdgesState(s.cube, 1) THEN s
    ELSE IF count + 1 >= inifinite_loop_max_iterations
    THEN Fail(Move(s, BackEdgesMove(s.cube)), "stuck")
    ELSE BackFaceEdgesLoop(Move(s, BackEdgesMove(s.cube)), count + 1)

\* Solver.back_face_edges
BackFaceEdges(s) ==
    Move(BackFaceEdgesLoop(Move(s, <<"X", "X">>), 0), <<"Xi", "Xi">>)

\* --- Last layer corners position ---
\* move_1 without its last two moves.
CornerSwap12Truncated == <<"Li", "Fi", "L", "D", "F", "Di", "Li", "F", "L">>

\* "Li Fi L D F Di Li F L F F ".split()
CornerSwap12 == <<"Li", "Fi", "L", "D", "F", "Di", "Li", "F", "L", "F", "F">>

\* "F Li Fi L D F Di Li F L F ".split()
CornerSwap13 == <<"F", "Li", "Fi", "L", "D", "F", "Di", "Li", "F", "L", "F">>

\* assert piece.pos == point, for a piece that may be None
CheckAt(s, piece, point) ==
    IF ~Ok(s) THEN s
    ELSE IF piece = 0 THEN Fail(s, "attr")
    ELSE IF s.cube[piece].pos # point THEN Fail(s, "assert")
    ELSE s

\* last_layer_corners_position, lines 285-291: place corner 4.
PlaceCorner4(s, c4) ==
    IF ~Ok(s) THEN s
    ELSE IF c4 = 0 THEN Fail(s, "attr")
    ELSE CheckAt(
            IF s.cube[c4].pos = <<1, -1, 1>>
            THEN Move(s, CornerSwap12 \o <<"Zi">> \o CornerSwap12 \o <<"Z">>)
            ELSE IF s.cube[c4].pos = <<1, 1, 1>>
            THEN Move(s, <<"Z">> \o CornerSwap13 \o <<"Zi">>)
            ELSE IF s.cube[c4].pos = <<-1, -1, 1>>
            THEN Move(s, <<"Zi">> \o CornerSwap12 \o <<"Z">>)
            ELSE s,
            c4, <<-1, 1, 1>>)

\* last_layer_corners_position, lines 293-297: place corner 2.
PlaceCorner2(s, c2) ==
    IF ~Ok(s) THEN s
    ELSE IF c2 = 0 THEN Fail(s, "attr")
    ELSE CheckAt(
            IF s.cube[c2].pos = <<1, 1, 1>>
            THEN Move(s, CornerSwap13 \o CornerSwap12)
            ELSE IF s.cube[c2].pos = <<1, -1, 1>>
            THEN Move(s, CornerSwap12)
            ELSE s,
            c2, <<-1, -1, 1>>)

\* last_layer_corners_position, lines 299-302: place corners 1 and 3.
PlaceCorners13(s, c1, c3) ==
    IF ~Ok(s) THEN s
    ELSE IF c3 = 0 THEN Fail(s, "attr")
    ELSE CheckAt(
            CheckAt(IF s.cube[c3].pos = <<1, -1, 1>> THEN Move(s, CornerSwap13) ELSE s,
                    c3, <<1, 1, 1>>),
            c1, <<1, -1, 1>>)

\* last_layer_corners_position, lines 280-303, after the first two turns.
CornersPositionFrom(s) ==
    Move(PlaceCorners13(
            PlaceCorner2(
                PlaceCorner4(s, FrontCorner(s.cube, left_color(s.cube), up_color(s.cube))),
                FrontCorner(s.cube, left_color(s.cube), down_color(s.cube))),
            FrontCorner(s.cube, right_color(s.cube), down_color(s.cube)),
            FrontCorner(s.cube, right_color(s.cube), up_color(s.cube))),
         <<"Xi", "Xi">>)

\* Solver.last_layer_corners_position
LastLayerCornersPosition(s) == CornersPositionFrom(Move(s, <<"X", "X">>))

\* --- Last layer corners orientation ---
\* "Ri Fi R Fi Ri F F R F F ".split()
CornerTwist1 == <<"Ri", "Fi", "R", "Fi", "Ri", "F", "F", "R", "F", "F">>

\* "R F Ri F R F F Ri F F ".split()
CornerTwist2 == <<"R", "F", "Ri", "F", "R", "F", "F", "Ri", "F", "F">>

\* last_layer_corners_orientation.state1 .. state8, numbered by n; f(x, y, a)
\* is self.cube[x, y, 1].colors[a] == self.cube.front_color().
CornersState(c, n) ==
    LET f(x, y, a) == ShowsFront(c, <<x, y, 1>>, a)
    IN  CASE n = 1 -> f(1, 1, 2) /\ f(-1, -1, 2) /\ f(1, -1, 1)
          [] n = 2 -> f(-1, 1, 2) /\ f(1, 1, 1) /\ f(1, -1, 2)
          [] n = 3 -> f(-1, -1, 2) /\ f(1, -1, 2) /\ f(-1, 1, 3) /\ f(1, 1, 3)
          [] n = 4 -> f(-1, 1, 2) /\ f(-1, -1, 2) /\ f(1, 1, 3) /\ f(1, -1, 3)
          [] n = 5 -> f(-1, 1, 2) /\ f(1, -1, 1)
          [] n = 6 -> f(1, 1, 2) /\ f(1, -1, 2) /\ f(-1, -1, 1) /\ f(-1, 1, 1)
          [] n = 7 -> f(1, 1, 1) /\ f(1, -1, 1) /\ f(-1, -1, 1) /\ f(-1, 1, 1)
          [] n = 8 -> f(1, 1, 3) /\ f(1, -1, 3) /\ f(-1, -1, 3) /\ f(-1, 1, 3)

\* last_layer_corners_orientation, lines 350-365: the move of one iteration.
CornersMove(c) ==
    IF CornersState(c, 1) THEN CornerTwist1
    ELSE IF CornersState(c, 2) THEN CornerTwist2
    ELSE IF CornersState(c, 3) THEN CornerTwist2 \o <<"F", "F">> \o CornerTwist1
    ELSE IF CornersState(c, 4) THEN CornerTwist2 \o CornerTwist1
    ELSE IF CornersState(c, 5) THEN CornerTwist1 \o <<"F">> \o CornerTwist2
    ELSE IF CornersState(c, 6) THEN CornerTwist1 \o <<"Fi">> \o CornerTwist1
    ELSE IF CornersState(c, 7) THEN CornerTwist1 \o <<"F", "F">> \o CornerTwist1
    ELSE <<"F">>

\* last_layer_corners_orientation, lines 348-368
RECURSIVE CornersOrientationLoop(_, _)
CornersOrientationLoop(s, count) ==
    IF ~Ok(s) THEN s
    ELSE IF CornersState(s.cube, 8) THEN s
    ELSE IF count + 1 >= inifinite_loop_max_iterations
    THEN Fail(Move(s, CornersMove(s.cube)), "stuck")
    ELSE CornersOrientationLoop(Move(s, CornersMove(s.cube)), count + 1)

\* while piece.pos != point: self.move(mv) (lines 371-372 and 483-484, no
\* ceiling).
RECURSIVE TurnUntilAt(_, _, _, _, _, _)
TurnUntilAt(s, piece, point, mv, n, entry) ==
    IF ~Ok(s) THEN s
    ELSE IF piece = 0 THEN Fail(s, "attr")
    ELSE IF s.cube[piece].pos = point THEN s
    ELSE IF n > 0 /\ s.cube = entry THEN Fail(s, "hang")
    ELSE TurnUntilAt(Move(s, <<mv>>), piece, point, mv, n + 1, entry)

\* last_layer_corners_orientation, lines 370-372.
CornersTurnHome(s) ==
    TurnUntilAt(s, FrontCorner(s.cube, right_color(s.cube), up_color(s.cube)),
                <<1, 1, 1>>, "F", 0, s.cube)

\* Solver.last_layer_corners_orientation
LastLayerCornersOrientation(s) ==
    Move(CornersTurnHome(CornersOrientationLoop(Move(s, <<"X", "X">>), 0)),
         <<"Xi", "Xi">>)

\* --- Final last layer edges ---
\* "R R F D Ui R R Di U F R R"
cycle_move == <<"R", "R", "F", "D", "Ui", "R", "R", "Di", "U", "F", "R", "R">>

\* "Ri S Ri Ri S S Ri Fi Fi R Si Si Ri Ri Si R Fi Fi ".split()
h_pattern_move ==
    <<"Ri", "S", "Ri", "Ri", "S", "S", "Ri", "Fi", "Fi", "R", "Si", "Si",
      "Ri", "Ri", "Si", "R", "Fi", "Fi">>

\* ("Di Li " + h_pattern_move + " L D").split()
fish_move == <<"Di", "Li">> \o h_pattern_move \o <<"L", "D">>

\* _handle_last_layer_state1.check_edge_lr
CheckEdgeLr(c) == c[GetPiece(c, PointAdd(LEFT, FRONT))].colors[3] = left_color(c)

\* _handle_last_layer_state1, lines 444-449; yields the solver and count.
RECURSIVE State1Loop(_, _)
State1Loop(s, count) ==
    IF ~Ok(s) THEN [s |-> s, count |-> count]
    ELSE IF CheckEdgeLr(s.cube) THEN [s |-> s, count |-> count]
    ELSE IF count + 1 = 4
    THEN [s |-> Fail(Move(s, <<"F">>), "bug"), count |-> count + 1]
    ELSE State1Loop(Move(s, <<"F">>), count + 1)

\* _handle_last_layer_state1, lines 450-452.
State1Finish(w) == MoveTimes(Move(w.s, h_pattern_move), <<"Fi">>, w.count)

\* Solver._handle_last_layer_state1
HandleLastLayerState1(s) == State1Finish(State1Loop(s, 0))

\* correct_edge, one of its four tests: the piece index if the piece at
\* point shows the front colour in front and colour col in slot a, else 0.
CorrectAt(c, point, a, col) ==
    IF /\ c[GetPiece(c, point)].colors[3] = front_color(c)
       /\ c[GetPiece(c, point)].colors[a] = col
    THEN GetPiece(c, point)
    ELSE 0

\* _handle_last_layer_state2.correct_edge: the piece index, 0 for None.
CorrectEdge(c) ==
    IF CorrectAt(c, PointAdd(LEFT, FRONT), 1, left_color(c)) # 0
    THEN CorrectAt(c, PointAdd(LEFT, FRONT), 1, left_color(c))
    ELSE IF CorrectAt(c, PointAdd(RIGHT, FRONT), 1, right_color(c)) # 0
    THEN CorrectAt(c, PointAdd(RIGHT, FRONT), 1, right_color(c))
    ELSE IF CorrectAt(c, PointAdd(UP, FRONT), 2, up_color(c)) # 0
    THEN CorrectAt(c, PointAdd(UP, FRONT), 2, up_color(c))
    ELSE CorrectAt(c, PointAdd(DOWN, FRONT), 2, down_color(c))

\* _handle_last_layer_state2, lines 475-480: cycle_move, and "Z" when the
\* new count is a multiple of 3.
State2Cycle(s, count) ==
    IF (count + 1) % 3 = 0
    THEN Move(Move(s, cycle_move), <<"Z">>)
    ELSE Move(s, cycle_move)

\* _handle_last_layer_state2, lines 471-482; yields the solver and the edge.
RECURSIVE State2Loop(_, _)
State2Loop(s, count) ==
    IF ~Ok(s) THEN [s |-> s, edge |-> 0]
    ELSE IF CorrectEdge(s.cube) # 0 THEN [s |-> s, edge |-> CorrectEdge(s.cube)]
    ELSE IF count + 1 >= inifinite_loop_max_iterations
    THEN [s |-> Fail(State2Cycle(s, count), "stuck"), edge |-> 0]
    ELSE State2Loop(State2Cycle(s, count), count + 1)

\* _handle_last_layer_state2, lines 485-486: the closing assert.
State2Assert(s) ==
    IF ~Ok(s) THEN s
    ELSE IF CorrectAt(s.cube, PointAdd(LEFT, FRONT), 1, left_color(s.cube)) # 0 THEN s
    ELSE Fail(s, "assert")

\* _handle_last_layer_state2, lines 483-486.
State2Finish(w) ==
    IF ~Ok(w.s) THEN w.s
    ELSE State2Assert(TurnUntilAt(w.s, w.edge, <<-1, 0, 1>>, "Z", 0, w.s.cube))

\* Solver._handle_last_layer_state2
HandleLastLayerState2(s) == State2Finish(State2Loop(s, 0))

\* last_layer_edges: the local predicates fish_pattern, h_pattern1 and
\* h_pattern2.
LastLayerPattern(c, name) ==
    CASE name = "fish_pattern" ->
            /\ c[GetPiece(c, PointAdd(FRONT, DOWN))].colors[3] = down_color(c)
            /\ c[GetPiece(c, PointAdd(FRONT, RIGHT))].colors[3] = right_color(c)
            /\ c[GetPiece(c, PointAdd(FRONT, DOWN))].colors[2] = front_color(c)
            /\ c[GetPiece(c, PointAdd(FRONT, RIGHT))].colors[1] = front_color(c)
      [] name = "h_pattern1" ->
            /\ c[GetPiece(c, <<-1, 0, 1>>)].colors[1] # left_color(c)
            /\ c[GetPiece(c, <<1, 0, 1>>)].colors[1] # right_color(c)
            /\ c[GetPiece(c, <<0, -1, 1>>)].colors[2] = down_color(c)
            /\ c[GetPiece(c, <<0, 1, 1>>)].colors[2] = up_color(c)
      [] name = "h_pattern2" ->
            /\ c[GetPiece(c, <<-1, 0, 1>>)].colors[1] = left_color(c)
            /\ c[GetPiece(c, <<1, 0, 1>>)].colors[1] = right_color(c)
            /\ c[GetPiece(c, <<0, -1, 1>>)].colors[2] = front_color(c)
            /\ c[GetPiece(c, <<0, 1, 1>>)].colors[2] = front_color(c)

\* last_layer_edges, lines 420-426: the for loop with k iterations left;
\* ret is TRUE when the method returns from inside the loop.
RECURSIVE FishLoop(_, _)
FishAfter(s, k) ==
    IF IsSolved(s.cube) THEN [s |-> s, ret |-> TRUE] ELSE FishLoop(s, k - 1)

FishLoop(s, k) ==
    IF k = 0 THEN [s |-> s, ret |-> FALSE]
    ELSE IF LastLayerPattern(s.cube, "fish_pattern") THEN FishAfter(Move(s, fish_move), k)
    ELSE FishLoop(Move(s, <<"Z">>), k - 1)

\* last_layer_edges, lines 427-432: the move after the for loop.
EdgesPatternMove(s) ==
    Move(s, IF LastLayerPattern(s.cube, "h_pattern1") THEN h_pattern_move
            ELSE IF LastLayerPattern(s.cube, "h_pattern2") THEN <<"Z">> \o h_pattern_move \o <<"Zi">>
            ELSE cycle_move)

\* last_layer_edges, lines 418-435: the while loop.
RECURSIVE FinalEdgesLoop(_, _)
FinalEdgesAfter(w, count) ==
    IF w.ret THEN w
    ELSE IF count + 1 >= inifinite_loop_max_iterations
    THEN [s |-> Fail(EdgesPatternMove(w.s), "stuck"), ret |-> FALSE]
    ELSE FinalEdgesLoop(EdgesPatternMove(w.s), count + 1)

FinalEdgesLoop(s, count) ==
    IF ~Ok(s) THEN [s |-> s, ret |-> FALSE]
    ELSE IF IsSolved(s.cube) THEN [s |-> s, ret |-> FALSE]
    ELSE FinalEdgesAfter(FishLoop(s, 4), count)

\* last_layer_edges.state1: no edge of <<bu, bd, bl, br>> shows the front
\* colour on the front face; the chain of "and" stops at the first edge that
\* does, and raises AttributeError ("error") on an edge that is None.
RECURSIVE EdgesState1(_, _, _)
EdgesState1(c, edges, n) ==
    IF n > Len(edges) THEN "true"
    ELSE IF edges[n] = 0 THEN "error"
    ELSE IF c[edges[n]].colors[3] # front_color(c) THEN EdgesState1(c, edges, n + 1)
    ELSE "false"

\* last_layer_edges.state2: some edge shows the front colour on the front
\* face; the chain of "or" stops at the first that does.
RECURSIVE EdgesState2(_, _, _)
EdgesState2(c, edges, n) ==
    IF n > Len(edges) THEN "false"
    ELSE IF edges[n] = 0 THEN "error"
    ELSE IF c[edges[n]].colors[3] = front_color(c) THEN "true"
    ELSE EdgesState2(c, edges, n + 1)

\* last_layer_edges, lines 398-399: if state1(): _handle_last_layer_state1
EdgesIfState1(s, edges) ==
    IF ~Ok(s) THEN s
    ELSE IF EdgesState1(s.cube, edges, 1) = "error" THEN Fail(s, "attr")
    ELSE IF EdgesState1(s.cube, edges, 1) = "true" THEN HandleLastLayerState1(s)
    ELSE s

\* last_layer_edges, lines 400-401: if state2(): _handle_last_layer_state2
EdgesIfState2(s, edges) ==
    IF ~Ok(s) THEN s
    ELSE IF EdgesState2(s.cube, edges, 1) = "error" THEN Fail(s, "attr")
    ELSE IF EdgesState2(s.cube, edges, 1) = "true" THEN HandleLastLayerState2(s)
    ELSE s

\* last_layer_edges, line 436, unless the method returned inside the loop.
EdgesFinish(w) == IF w.ret THEN w.s ELSE Move(w.s, <<"Xi", "Xi">>)

\* last_layer_edges, lines 398-436, given <<bu_edge, bd_edge, bl_edge, br_edge>>.
EdgesWith(s, edges) ==
    EdgesFinish(FinalEdgesLoop(EdgesIfState2(EdgesIfState1(s, edges), edges), 0))

\* last_layer_edges, lines 380-436, after the first two turns.
EdgesFrom(s) ==
    EdgesWith(s, <<FrontEdge(s.cube, up_color(s.cube)),
                   FrontEdge(s.cube, down_color(s.cube)),
                   FrontEdge(s.cube, left_color(s.cube)),
                   FrontEdge(s.cube, right_color(s.cube))>>)

\* Solver.last_layer_edges
LastLayerEdges(s) == EdgesFrom(Move(s, <<"X", "X">>))

(***************************************************************************)
(* optimize.py                                                             *)
(***************************************************************************)
X_ROT_CW ==
    {<<"U", "F">>, <<"B", "U">>, <<"D", "B">>, <<"F", "D">>,
     <<"E", "Si">>, <<"S", "E">>, <<"Y", "Z">>, <<"Z", "Yi">>}

\* Y_ROT_CW with 'S': 'M' in place of 'S': 'Mi'.
Y_ROT_CW_SliceSense ==
    {<<"B", "L">>, <<"R", "B">>, <<"F", "R">>, <<"L", "F">>,
     <<"S", "M">>, <<"M", "S">>, <<"Z", "X">>, <<"X", "Zi">>}

Y_ROT_CW ==
    {<<"B", "L">>, <<"R", "B">>, <<"F", "R">>, <<"L", "F">>,
     <<"S", "Mi">>, <<"M", "S">>, <<"Z", "X">>, <<"X", "Zi">>}

Z_ROT_CW ==
    {<<"U", "L">>, <<"R", "U">>, <<"D", "R">>, <<"L", "D">>,
     <<"E", "Mi">>, <<"M", "E">>, <<"Y", "Xi">>, <<"X", "Y">>}

\* {v: k for k, v in table.items()}
InvertTable(table) == {<<kv[2], kv[1]>> : kv \in table}

X_ROT_CC == InvertTable(X_ROT_CW)
Y_ROT_CC == InvertTable(Y_ROT_CW)
Z_ROT_CC == InvertTable(Z_ROT_CW)

\* get_rot_table returning the clockwise table for the inverse rotations too.
GetRotTableOneSense(rot) ==
    CASE rot \in {"X", "Xi"} -> X_ROT_CW
      [] rot \in {"Y", "Yi"} -> Y_ROT_CW
      [] rot \in {"Z", "Zi"} -> Z_ROT_CW

\* get_rot_table
GetRotTable(rot) ==
    CASE rot = "X" -> X_ROT_CW
      [] rot = "Xi" -> X_ROT_CC
      [] rot = "Y" -> Y_ROT_CW
      [] rot = "Yi" -> Y_ROT_CC
      [] rot = "Z" -> Z_ROT_CW
      [] rot = "Zi" -> Z_ROT_CC

Lookup(table, move) == (CHOOSE kv \in table : kv[1] = move)[2]

\* _invert without the test of the suffix: move + 'i' for every move.
InvertAlwaysAppends(move) == move \o "i"

\* _invert: move[:1] if move.endswith('i') else move + 'i', computed on the
\* move letters paired with their i-suffixed names, <<m, m + "i">>.
Invert(move) ==
    LET MovePairs ==
            {<<"L", "Li">>, <<"R", "Ri">>, <<"U", "Ui">>, <<"D", "Di">>,
             <<"F", "Fi">>, <<"B", "Bi">>, <<"M", "Mi">>, <<"E", "Ei">>,
             <<"S", "Si">>, <<"X", "Xi">>, <<"Y", "Yi">>, <<"Z", "Zi">>}
        Other(p) == IF move = p[2] THEN p[1] ELSE p[2]
    IN  Other(CHOOSE q \in MovePairs : move = q[1] \/ move = q[2])

\* moves[a:b] = repl with 0-based a, b (Python slice assignment).
SliceAssign(moves, a, b, repl) ==
    SubSeq(moves, 1, a) \o repl \o SubSeq(moves, b + 1, Len(moves))

\* apply_repeat_three_optimization, lines 84-89: at most n iterations of the
\* while loop.
RECURSIVE RepeatThreeRun(_, _)
RepeatThreeRun(w, n) ==
    IF n = 0 \/ ~(w.i < Len(w.moves) - 2) THEN w
    ELSE IF /\ w.moves[w.i + 1] = w.moves[w.i + 2]
            /\ w.moves[w.i + 2] = w.moves[w.i + 3]
    THEN RepeatThreeRun(
            [w EXCEPT !.moves = SliceAssign(@, w.i, w.i + 3, <<Invert(w.moves[w.i + 1])>>),
                      !.changed = TRUE],
            n - 1)
    ELSE RepeatThreeRun([w EXCEPT !.i = @ + 1], n - 1)

\* apply_repeat_three_optimization, the while loop run to its end.
RECURSIVE RepeatThreeScan(_)
RepeatThreeScan(w) ==
    IF ~(w.i < Len(w.moves) - 2) THEN w
    ELSE RepeatThreeScan(RepeatThreeRun(w, 30))

\* apply_repeat_three_optimization with its rewrite turned round: every
\* inverse move is replaced with three of the plain move.
ApplyRepeatThreeReversed(moves) ==
    LET Plain == {"L", "R", "U", "D", "F", "B", "M", "E", "S", "X", "Y", "Z"}
        out[n \in 0..Len(moves)] ==
            IF n = 0 THEN <<>>
            ELSE IF moves[n] \in Plain THEN Append(out[n - 1], moves[n])
            ELSE out[n - 1] \o <<Invert(moves[n]), Invert(moves[n]), Invert(moves[n])>>
    IN  out[Len(moves)]

\* apply_repeat_three_optimization
RECURSIVE ApplyRepeatThree(_)
ApplyRepeatThree(moves) ==
    LET Done(r) == IF r.changed THEN ApplyRepeatThree(r.moves) ELSE r.moves
    IN  Done(RepeatThreeScan([moves |-> moves, i |-> 0, changed |-> FALSE]))

\* apply_do_undo_optimization, lines 98-103: at most n iterations of the
\* while loop.
RECURSIVE DoUndoRun(_, _)
DoUndoRun(w, n) ==
    IF n = 0 \/ ~(w.i < Len(w.moves) - 1) THEN w
    ELSE IF Invert(w.moves[w.i + 1]) = w.moves[w.i + 2]
    THEN DoUndoRun([w EXCEPT !.moves = SliceAssign(@, w.i, w.i + 2, <<>>),
                             !.changed = TRUE],
                   n - 1)
    ELSE DoUndoRun([w EXCEPT !.i = @ + 1], n - 1)

\* apply_do_undo_optimization, the while loop run to its end.
RECURSIVE DoUndoScan(_)
DoUndoScan(w) ==
    IF ~(w.i < Len(w.moves) - 1) THEN w
    ELSE DoUndoScan(DoUndoRun(w, 30))

\* apply_do_undo_optimization leaving the list as it is.
ApplyDoUndoSkipped(moves) == moves

\* apply_do_undo_optimization
RECURSIVE ApplyDoUndo(_)
ApplyDoUndo(moves) ==
    LET Done(r) == IF r.changed THEN ApplyDoUndo(r.moves) ELSE r.moves
    IN  Done(DoUndoScan([moves |-> moves, i |-> 0, changed |-> FALSE]))

\* _unrotate without the outer _invert of line 116: an inverse move is
\* rewritten to the image of its plain move.
UnrotateMoveKeepSense(rot, move) ==
    LET Image(rot_table) ==
            IF move \in {kv[1] : kv \in rot_table} THEN Lookup(rot_table, move)
            ELSE IF Invert(move) \in {kv[1] : kv \in rot_table}
            THEN Lookup(rot_table, Invert(move))
            ELSE move
    IN  Image(GetRotTable(rot))

\* _unrotate, the image of one move.
UnrotateMove(rot, move) ==
    LET Image(rot_table) ==
            IF move \in {kv[1] : kv \in rot_table} THEN Lookup(rot_table, move)
            ELSE IF Invert(move) \in {kv[1] : kv \in rot_table}
            THEN Invert(Lookup(rot_table, Invert(move)))
            ELSE move
    IN  Image(GetRotTable(rot))

\* _unrotate
Unrotate(rot, moves) == [k \in 1..Len(moves) |-> UnrotateMove(rot, moves[k])]

Rots == {"X", "Y", "Z", "Xi", "Yi", "Zi"}

\* apply_no_full_cube_rotation_optimization, lines 131-135: the largest
\* 0-based j > i with moves[j] == _invert(moves[i]), or -1.
LastInverseAfter(moves, i) ==
    LET Last(js) == IF js = {} THEN -1 ELSE MaxOf(js)
    IN  Last({j \in (i + 1)..(Len(moves) - 1) : moves[j + 1] = Invert(moves[i + 1])})

\* apply_no_full_cube_rotation_optimization, lines 127-136: at most n
\* iterations of the while loop.
RECURSIVE NoRotationRun(_, _)
NoRotationRun(w, n) ==
    LET Found(j) ==
            IF j = -1 THEN [w EXCEPT !.i = @ + 1]
            ELSE [w EXCEPT !.moves = SliceAssign(@, w.i, j + 1,
                                        Unrotate(w.moves[w.i + 1],
                                                 SubSeq(w.moves, w.i + 2, j))),
                           !.i = @ + 1,
                           !.changed = TRUE]
    IN  IF n = 0 \/ ~(w.i < Len(w.moves)) THEN w
        ELSE IF w.moves[w.i + 1] \notin Rots
        THEN NoRotationRun([w EXCEPT !.i = @ + 1], n - 1)
        ELSE NoRotationRun(Found(LastInverseAfter(w.moves, w.i)), n - 1)

\* apply_no_full_cube_rotation_optimization, the while loop run to its end.
RECURSIVE NoRotationScan(_)
NoRotationScan(w) ==
    IF ~(w.i < Len(w.moves)) THEN w
    ELSE NoRotationScan(NoRotationRun(w, 30))

\* apply_no_full_cube_rotation_optimization without the call on its own
\* result of lines 137-138: one run of the while loop.
ApplyNoFullCubeRotationOnce(moves) ==
    NoRotationScan([moves |-> moves, i |-> 0, changed |-> FALSE]).moves

\* apply_no_full_cube_rotation_optimization
RECURSIVE ApplyNoFullCubeRotation(_)
ApplyNoFullCubeRotation(moves) ==
    LET Done(r) == IF r.changed THEN ApplyNoFullCubeRotation(r.moves) ELSE r.moves
    IN  Done(NoRotationScan([moves |-> moves, i |-> 0, changed |-> FALSE]))

\* optimize_moves
OptimizeMoves(moves) ==
    ApplyDoUndo(ApplyRepeatThree(ApplyNoFullCubeRotation(moves)))

(***************************************************************************)
(* The program as a state machine: solve_cube.solve_random_cube builds a  *)
(* cube from a sticker string, scrambles it, creates a Solver, runs the   *)
(* phases of Solver.solve in order, optimises the recorded moves and      *)
(* replays them on a second cube built from the same string and scramble. *)
(***************************************************************************)
VARIABLES
    cube_str,     \* the sticker string the cubes are constructed from
    scramble,     \* the scramble applied to the constructed cube
    cube,         \* cube_obj, which is also Solver.cube
    moves,        \* Solver.moves (the list handed to optimize_moves)
    st,           \* outcome of the solver so far (see the Solver section)
    centres,      \* Solver.left_piece, right_piece, up_piece, down_piece
    pc,           \* position in solve_random_cube / Solver.solve
    optimised,    \* optimised_moves
    check_cube,   \* check_cube after the replay (<<>> before it)
    reoptimised,  \* optimize_moves(optimised_moves)
    heap,         \* the Piece objects and colour lists of the Cube objects a and b
    calls         \* the calls made on the Cube objects a and b, in order

vars ==
    <<cube_str, scramble, cube, moves, st, centres, pc, optimised, check_cube,
      reoptimised, heap, calls>>

\* Longest scramble suffix the model appends to a prescramble.
MaxScramble == 1

\* Longest list over all 24 move names handed to optimize_moves directly.
MaxAnyList == 3

\* Longest list over R, U, Ui, X and Xi handed to optimize_moves directly.
MaxCoreList == 5

\* Scrambles the model starts from: none, and the scenario "R U Ri Ui".
Prescrambles == {<<>>, <<"R", "U", "Ri", "Ui">>}

\* Sticker strings Cube.__init__ accepts: the solved cube, one colour on
\* all 54 stickers, and the solved cube with two stickers exchanged.
CubeStrings ==
    LET Swapped(a, b) ==
            [k \in 1..54 |->
                IF k = a + 1 THEN SOLVED_CUBE_STR[b + 1]
                ELSE IF k = b + 1 THEN SOLVED_CUBE_STR[a + 1]
                ELSE SOLVED_CUBE_STR[k]]
    IN  {SOLVED_CUBE_STR, Rep("A", 54), Swapped(0, 22), Swapped(0, 9),
         Swapped(0, 10), Swapped(4, 12)}

\* The Solver object assembled from the state variables.
SolverRec ==
    [cube |-> cube, moves |-> moves, st |-> st,
     left_piece |-> centres.left_piece, right_piece |-> centres.right_piece,
     up_piece |-> centres.up_piece, down_piece |-> centres.down_piece]

\* The cube as it was handed to Solver.__init__ (solve_cube.py, lines 43-46),
\* which is also check_cube before the replay (lines 55-56).
StartCube == CubeSequence(CubeFromStr(cube_str), scramble)

\* Cube(cube_str) removes the whitespace of cube_str and asserts that 54
\* stickers are left (cube.py, lines 196-198): when the assert fails there
\* is no cube, here <<>>.
InitFrom(strings, start) ==
    /\ cube_str \in strings
    /\ scramble \in Prescrambles
    /\ cube = IF Len(RemoveWhitespace(cube_str)) = 54
              THEN CubeSequence(CubeFromStr(RemoveWhitespace(cube_str)), scramble)
              ELSE <<>>
    /\ moves = <<>>
    /\ st = "ok"
    /\ centres = [left_piece |-> 0, right_piece |-> 0, up_piece |-> 0, down_piece |-> 0]
    /\ pc = start
    /\ optimised = <<>>
    /\ check_cube = <<>>
    /\ reoptimised = <<>>
    /\ heap = [pieces |-> <<>>, lists |-> <<>>, a |-> <<>>, b |-> <<>>]
    /\ calls = <<>>

\* Cube(SOLVED_CUBE_STR), as in solve_random_cube.
Init == InitFrom({SOLVED_CUBE_STR}, "scramble")

\* One more move of the scramble (solve_cube.py, lines 42-44), here drawn
\* from all 24 move names.
ScrambleMove ==
    /\ pc = "scramble"
    /\ \E p \in Prescrambles :
          /\ Len(p) <= Len(scramble)
             /\ SubSeq(scramble, 1, Len(p)) = p
             /\ Len(scramble) < Len(p) + MaxScramble
    /\ \E m \in MoveNames :
          /\ scramble' = Append(scramble, m)
          /\ cube' = ApplyMove(cube, m)
    /\ UNCHANGED <<cube_str, moves, st, centres, pc, optimised, check_cube, reoptimised>>
    /\ UNCHANGED <<heap, calls>>

\* solver = Solver(cube_obj)
CreateSolver ==
    /\ pc = "scramble"
    /\ moves' = SolverInit(cube).moves
    /\ st' = SolverInit(cube).st
    /\ centres' = [left_piece |-> SolverInit(cube).left_piece,
                   right_piece |-> SolverInit(cube).right_piece,
                   up_piece |-> SolverInit(cube).up_piece,
                   down_piece |-> SolverInit(cube).down_piece]
    /\ pc' = "cross"
    /\ UNCHANGED <<cube_str, scramble, cube, optimised, check_cube, reoptimised>>
    /\ UNCHANGED <<heap, calls>>

\* Solver.solve calling cross() again once second_layer() has returned.
RunPhaseReenters(here, r, next) ==
    /\ pc = here
    /\ st = "ok"
    /\ cube' = r.cube
    /\ moves' = r.moves
    /\ st' = r.st
    /\ pc' = IF r.st = "ok" THEN (IF here = "second_layer" THEN "cross" ELSE next)
             ELSE IF r.st = "hang" THEN here ELSE "raised"
    /\ UNCHANGED <<cube_str, scramble, centres, optimised, check_cube, reoptimised>>
    /\ UNCHANGED <<heap, calls>>

\* One phase of Solver.solve: the state after the phase method r, which
\* either returns (control moves on to next), raises, or never returns.
RunPhase(here, r, next) ==
    /\ pc = here
    /\ st = "ok"
    /\ cube' = r.cube
    /\ moves' = r.moves
    /\ st' = r.st
    /\ pc' = IF r.st = "ok" THEN next ELSE IF r.st = "hang" THEN here ELSE "raised"
    /\ UNCHANGED <<cube_str, scramble, centres, optimised, check_cube, reoptimised>>
    /\ UNCHANGED <<heap, calls>>

\* optimised_moves = optimize_moves(solution_moves)
Optimise ==
    /\ pc = "solved"
    /\ optimised' = OptimizeMoves(moves)
    /\ pc' = "optimised"
    /\ UNCHANGED <<cube_str, scramble, cube, moves, st, centres, check_cube, reoptimised>>
    /\ UNCHANGED <<heap, calls>>

\* check_cube = Cube(...); sequence(scramble); sequence(optimised_moves)
Verify ==
    /\ pc = "optimised"
    /\ check_cube' = CubeSequence(CubeSequence(CubeFromStr(cube_str), scramble), optimised)
    /\ pc' = "verified"
    /\ UNCHANGED <<cube_str, scramble, cube, moves, st, centres, optimised, reoptimised>>
    /\ UNCHANGED <<heap, calls>>

Next ==
    \/ ScrambleMove
    \/ CreateSolver
    \/ RunPhase("cross", Cross(SolverRec), "cross_corners")
    \/ RunPhase("cross_corners", CrossCorners(SolverRec), "second_layer")
    \/ RunPhase("second_layer", SecondLayer(SolverRec), "back_face_edges")
    \/ RunPhase("back_face_edges", BackFaceEdges(SolverRec), "last_layer_corners_position")
    \/ RunPhase("last_layer_corners_position", LastLayerCornersPosition(SolverRec),
                "last_layer_corners_orientation")
    \/ RunPhase("last_layer_corners_orientation", LastLayerCornersOrientation(SolverRec),
                "last_layer_edges")
    \/ RunPhase("last_layer_edges", LastLayerEdges(SolverRec), "solved")
    \/ Optimise
    \/ Verify

\* solve_random_cube on scrambles of the solved cube.
Spec == Init /\ [][Next]_vars

\* The same program started from any of the sticker strings.
SpecAny == InitFrom(CubeStrings, "scramble") /\ [][Next]_vars

(***************************************************************************)
(* optimize_moves as a caller other than solve_random_cube may use it: on *)
(* any list of move names, with the list and its optimised form each      *)
(* replayed on a copy of the same cube, and the result optimised again.   *)
(***************************************************************************)
\* One more move name at the end of the list.
AppendMove ==
    /\ pc = "list"
    /\ \E m \in MoveNames :
          /\ \/ Len(moves) < MaxAnyList
             \/ /\ Len(moves) < MaxCoreList
                /\ m \in {"R", "U", "Ui", "X", "Xi"}
                /\ \A k \in 1..Len(moves) : moves[k] \in {"R", "U", "Ui", "X", "Xi"}
          /\ moves' = Append(moves, m)
    /\ UNCHANGED <<cube_str, scramble, cube, st, centres, pc, optimised, check_cube,
                   reoptimised>>
    /\ UNCHANGED <<heap, calls>>

\* optimize_moves with result = moves in place of result = list(moves):
\* the three rules rewrite the list of the caller.
OptimiseListInPlace ==
    /\ pc = "list"
    /\ optimised' = OptimizeMoves(moves)
    /\ moves' = optimised'
    /\ pc' = "optimised_list"
    /\ UNCHANGED <<cube_str, scramble, cube, st, centres, check_cube, reoptimised>>
    /\ UNCHANGED <<heap, calls>>

\* optimised = optimize_moves(moves)
OptimiseList ==
    /\ pc = "list"
    /\ optimised' = OptimizeMoves(moves)
    /\ pc' = "optimised_list"
    /\ UNCHANGED <<cube_str, scramble, cube, moves, st, centres, check_cube, reoptimised>>
    /\ UNCHANGED <<heap, calls>>

\* cube.sequence(moves) and, on a copy of the cube, sequence(optimised)
ReplayList ==
    /\ pc = "optimised_list"
    /\ cube' = CubeSequence(cube, moves)
    /\ check_cube' = CubeSequence(CubeFromCube(cube), optimised)
    /\ pc' = "replayed"
    /\ UNCHANGED <<cube_str, scramble, moves, st, centres, optimised, reoptimised>>
    /\ UNCHANGED <<heap, calls>>

\* reoptimised = optimize_moves(optimised)
Reoptimise ==
    /\ pc = "replayed"
    /\ reoptimised' = OptimizeMoves(optimised)
    /\ pc' = "reoptimised"
    /\ UNCHANGED <<cube_str, scramble, cube, moves, st, centres, optimised, check_cube>>
    /\ UNCHANGED <<heap, calls>>

NextOpt ==
    \/ AppendMove
    \/ OptimiseList
    \/ ReplayList
    \/ Reoptimise

SpecOpt == InitFrom({SOLVED_CUBE_STR}, "list") /\ [][NextOpt]_vars

(***************************************************************************)
(* Cube objects as a caller other than the Solver may use them: a Cube a  *)
(* is constructed, copied at some point into a Cube b, and move strings   *)
(* are run on either.  Here the objects are held by reference: heap.pieces *)
(* are the Piece objects, a Piece's colors field is the index in          *)
(* heap.lists of its colour list (the list Piece.rotate swaps in place),  *)
(* and heap.a and heap.b are the pieces lists of the two Cubes (<<>> while *)
(* the Cube does not exist).  A Piece's pos is rebound by Piece.rotate,   *)
(* never changed in place, so it is held by value.                         *)
(***************************************************************************)
\* Most calls of Cube.sequence the caller makes.
MaxCalls == 2

\* Longest list of tokens drawn from the core tokens in one call.
MaxTokens == 2

\* A sticker string on which no two stickers agree.
DISTINCT_CUBE_STR ==
    <<"a", "b", "c", "d", "e", "f", "g", "h", "i", "j", "k", "l", "m", "n",
      "o", "p", "q", "r", "s", "t", "u", "v", "w", "x", "y", "z", "A", "B",
      "C", "D", "E", "F", "G", "H", "I", "J", "K", "L", "M", "N", "O", "P",
      "Q", "R", "S", "T", "U", "V", "W", "X", "Y", "Z", "0", "1">>

\* The pieces, by value, that a list of Piece references denotes.
PiecesOf(h, refs) ==
    [k \in 1..Len(refs) |->
        [pos |-> h.pieces[refs[k]].pos,
         colors |-> h.lists[h.pieces[refs[k]].colors],
         type |-> h.pieces[refs[k]].type]]

\* Cube._from_cube taking over the Piece objects of the other cube:
\* self.pieces = c.pieces.
CopyConstructShallow(h, refs) == [h EXCEPT !.b = refs]

\* Cube(c), that is Cube._from_cube: for every piece of c a new Piece is
\* made, and Piece.__init__ gives it a new colour list, list(colors).
CopyConstruct(h, refs) ==
    LET made == CubeFromCube(PiecesOf(h, refs))
    IN  [h EXCEPT
            !.pieces = @ \o [k \in 1..Len(refs) |->
                                [pos |-> made[k].pos,
                                 colors |-> Len(h.lists) + k,
                                 type |-> made[k].type]],
            !.lists = @ \o [k \in 1..Len(refs) |-> made[k].colors],
            !.b = [k \in 1..Len(refs) |-> Len(h.pieces) + k]]

\* a = Cube(cube_str), and a.sequence(scramble): the Piece objects of the
\* cube built by Cube.__init__, or the AssertionError of line 198, which
\* leaves the caller without a cube.
NewCube ==
    /\ pc = "construct"
    /\ IF Len(RemoveWhitespace(cube_str)) = 54
       THEN /\ heap' = [pieces |-> [k \in 1..Len(cube) |->
                                     [pos |-> cube[k].pos, colors |-> k,
                                      type |-> cube[k].type]],
                        lists |-> [k \in 1..Len(cube) |-> cube[k].colors],
                        a |-> [k \in 1..Len(cube) |-> k],
                        b |-> <<>>]
            /\ pc' = "constructed"
            /\ st' = st
       ELSE /\ heap' = heap
            /\ pc' = "raised"
            /\ st' = "assert"
    /\ UNCHANGED <<cube_str, scramble, cube, moves, centres, optimised, check_cube,
                   reoptimised, calls>>

\* b = Cube(a)
CopyCube ==
    /\ pc = "constructed"
    /\ heap.b = <<>>
    /\ heap' = CopyConstruct(heap, heap.a)
    /\ calls' = Append(calls, [op |-> "copy", on |-> "a", tokens |-> <<>>, st |-> "ok"])
    /\ UNCHANGED <<cube_str, scramble, cube, moves, st, centres, pc, optimised,
                   check_cube, reoptimised>>

\* a.sequence(tokens) or b.sequence(tokens): Piece.rotate rebinds the pos
\* and swaps the colour list, in place, of each Piece of the cube called.
\* The first call takes any one token or a list of core tokens, each later
\* call one core token.
CallSequence ==
    /\ pc = "constructed"
    /\ Cardinality({n \in 1..Len(calls) : calls[n].op = "sequence"}) < MaxCalls
    /\ \E on \in {"a", "b"} :
       \E tokens \in
             IF \A n \in 1..Len(calls) : calls[n].op # "sequence"
             THEN {<<x>> : x \in MoveNames \cup {"is_solved", "pieces", "Q", "R2"}}
                     \cup UNION {[1..n -> {"R", "U", "is_solved", "pieces", "Q"}] :
                                    n \in 1..MaxTokens}
             ELSE {<<x>> : x \in {"R", "U", "is_solved", "pieces", "Q"}} :
          /\ heap[on] # <<>>
          /\ LET refs == heap[on]
                 r == SequenceCall(PiecesOf(heap, refs), tokens)
             IN  /\ heap' =
                       [heap EXCEPT
                          !.pieces =
                             [p \in 1..Len(@) |->
                                 IF \E k \in 1..Len(refs) : refs[k] = p
                                 THEN [@[p] EXCEPT
                                         !.pos = r.cube[CHOOSE k \in 1..Len(refs) :
                                                           refs[k] = p].pos]
                                 ELSE @[p]],
                          !.lists =
                             [i \in 1..Len(@) |->
                                 IF \E k \in 1..Len(refs) : heap.pieces[refs[k]].colors = i
                                 THEN r.cube[CHOOSE k \in 1..Len(refs) :
                                                heap.pieces[refs[k]].colors = i].colors
                                 ELSE @[i]]]
                 /\ calls' = Append(calls, [op |-> "sequence", on |-> on,
                                            tokens |-> tokens, st |-> r.st])
    /\ UNCHANGED <<cube_str, scramble, cube, moves, st, centres, pc, optimised,
                   check_cube, reoptimised>>

\* A caller constructing a cube from a string, copying it and running move
\* strings on the cube and on its copy.  The strings are two sticker
\* strings, a sticker string with whitespace around it, and strings that
\* hold 53, 55 or no stickers.
SpecCube ==
    /\ InitFrom({SOLVED_CUBE_STR, DISTINCT_CUBE_STR,
                 <<"\n">> \o SOLVED_CUBE_STR \o <<" ", "\t">>,
                 <<" ">> \o SubSeq(SOLVED_CUBE_STR, 2, 54),
                 SubSeq(SOLVED_CUBE_STR, 1, 53),
                 Append(SOLVED_CUBE_STR, "O"),
                 <<" ", "\n">>},
                "construct")
    /\ [][NewCube \/ CopyCube \/ CallSequence]_vars

(***************************************************************************)
(* Properties.                                                            *)
(***************************************************************************)
\* C1: from every scrambled cube (the scramble "R U Ri Ui" among them) no
\* phase of Solver.solve raises or loops forever, and once solve() has
\* returned is_solved() is true.
C1_SolveLeavesSolved ==
    /\ st = "ok"
    /\ pc # "raised"
    /\ pc \in {"solved", "optimised", "verified"} => IsSolved(cube)

\* solve() has returned on the cube scrambled with "R U Ri Ui", after moves.
C1_Witness ==
    /\ pc = "solved"
    /\ scramble = <<"R", "U", "Ri", "Ui">>
    /\ ~IsSolved(StartCube)
    /\ moves # <<>>
    /\ IsSolved(cube)

\* C2: the optimised moves replayed on a second copy of the scrambled cube
\* give a solved cube, and its colour list is that of a third copy on which
\* the recorded moves are replayed (the colour lists are compared unless the
\* two copies agree piece by piece).
C2_OptimisedReplay ==
    pc = "verified" =>
        /\ IsSolved(check_cube)
        /\ \/ check_cube = CubeSequence(StartCube, moves)
           \/ CubeEq(check_cube, CubeSequence(StartCube, moves))

\* The replay of a list the optimiser has shortened, on a scrambled cube.
C2_Witness ==
    /\ pc = "verified"
    /\ ~IsSolved(StartCube)
    /\ Len(optimised) < Len(moves)
    /\ IsSolved(check_cube)

\* C3: for any list of move names, the cube after the optimised list has
\* the colour list of the cube after the list itself (the colour lists are
\* compared unless the two cubes agree piece by piece).
C3_NetEffectPreserved ==
    pc = "replayed" => (cube = check_cube \/ CubeEq(cube, check_cube))

\* A list with a whole-cube rotation that the optimiser rewrote to a
\* non-empty list, replayed on a scrambled cube.
C3_Witness ==
    /\ pc = "replayed"
    /\ scramble # <<>>
    /\ \E k \in 1..Len(moves) : moves[k] \in Rots
    /\ optimised # moves
    /\ optimised # <<>>
    /\ ~CubeEq(cube, StartCube)

\* C4: optimising the output of optimize_moves again returns it unchanged.
C4_Idempotent == pc = "reoptimised" => reoptimised = optimised

\* C5: from the current cube, any move followed by its named inverse gives
\* a cube with the colour list of the current cube (the colour lists are
\* compared unless the pieces themselves are all as they were).
C5_MoveThenInverse ==
    \A m \in MoveNames :
        \/ ApplyMove(ApplyMove(cube, m), Invert(m)) = cube
        \/ CubeEq(ApplyMove(ApplyMove(cube, m), Invert(m)), cube)

\* An unsolved cube in the middle of a solve, which every move changes.
C5_Witness ==
    /\ pc = "second_layer"
    /\ moves # <<>>
    /\ ~IsSolved(cube)
    /\ \A m \in MoveNames : ~CubeEq(ApplyMove(cube, m), cube)

\* C6: from the current cube, any move applied four times gives the current
\* cube again, piece by piece.
C6_FourTimes == \A m \in MoveNames : CubeSequence(cube, <<m, m, m, m>>) = cube

\* An unsolved cube in the middle of a solve, which every move applied
\* twice changes.
C6_Witness ==
    /\ pc = "back_face_edges"
    /\ moves # <<>>
    /\ ~IsSolved(cube)
    /\ \A m \in MoveNames : CubeSequence(cube, <<m, m>>) # cube

\* C7: from Solver.__init__ on, the recorded moves replayed on the cube the
\* Solver was created with give the Solver's cube; a step extends the record
\* or leaves it alone, and changes the cube only if it extends the record.
C7_RecordReproducesCube ==
    /\ [](pc # "scramble" => CubeSequence(StartCube, moves) = cube)
    /\ [][(pc # "scramble") =>
            (/\ Len(moves) <= Len(moves')
             /\ SubSeq(moves', 1, Len(moves)) = moves
             /\ cube' # cube => moves' # moves)]_vars

\* A phase has run on a scrambled cube and has recorded moves.
C7_Witness ==
    /\ pc = "last_layer_edges"
    /\ scramble # <<>>
    /\ moves # <<>>
    /\ cube # StartCube

\* C8: the cube holds 26 pieces, 6 centres, 12 edges and 8 corners, each of
\* the kind it was constructed with; their positions are pairwise distinct
\* and are the 26 points of {-1,0,1}^3 other than the origin.
C8_TwentySixPieces ==
    /\ Len(cube) = NumPieces
    /\ Cardinality({k \in 1..Len(cube) : cube[k].type = FACE}) = 6
    /\ Cardinality({k \in 1..Len(cube) : cube[k].type = EDGE}) = 12
    /\ Cardinality({k \in 1..Len(cube) : cube[k].type = CORNER}) = 8
    /\ \A k \in 1..Len(cube) : cube[k].type = CubeFromStr(cube_str)[k].type
    /\ \A k, h \in 1..Len(cube) : k # h => cube[k].pos # cube[h].pos
    /\ {cube[k].pos : k \in 1..Len(cube)}
          = ({-1, 0, 1} \X {-1, 0, 1} \X {-1, 0, 1}) \ {<<0, 0, 0>>}

\* A cube after the moves of a solve, with at least 20 of its pieces away
\* from the positions they were constructed at.
C8_Witness ==
    /\ pc = "last_layer_corners_position"
    /\ moves # <<>>
    /\ Cardinality({k \in 1..Len(cube) : cube[k].pos # CubeFromStr(cube_str)[k].pos}) >= 20

\* C9: on every axis a piece has a colour exactly if its coordinate on that
\* axis is not 0, and its kind is the kind its colours give and the kind it
\* was constructed with.
C9_SlotsFollowPosition ==
    \A k \in 1..Len(cube) :
        /\ \A a \in 1..3 : (cube[k].colors[a] # NoColor) <=> (cube[k].pos[a] # 0)
        /\ cube[k].type = PieceType(cube[k].colors)
        /\ cube[k].type = CubeFromStr(cube_str)[k].type

\* A cube after a scramble and the moves of the first phase, in which a
\* centre, an edge and a corner have their colours in other slots than the
\* ones they were constructed with.
C9_Witness ==
    /\ pc = "cross_corners"
    /\ moves # <<>>
    /\ \A kind \in {FACE, EDGE, CORNER} :
          \E k \in 1..Len(cube) :
             /\ cube[k].type = kind
             /\ \E a \in 1..3 : cube[k].colors[a] # CubeFromStr(cube_str)[k].colors[a]

\* C10: on a cube built from any sticker string, no phase of Solver.solve
\* runs a loop forever.
C10_SolveNeverLoopsForever == st # "hang"

\* C11: a cube just constructed from a sticker string, before any move,
\* has that string as its net-order colour list and as its flat_str: the
\* sticker at string index k is read back at net position k.
C11_ConstructRenderRoundTrip ==
    (pc = "constructed" /\ Len(cube_str) = 54 /\ scramble = <<>> /\ calls = <<>>) =>
        /\ ColorList(PiecesOf(heap, heap.a)) = cube_str
        /\ FlatStr(PiecesOf(heap, heap.a)) = cube_str

\* A cube just constructed from a string of 54 different stickers.
C11_Witness ==
    /\ pc = "constructed"
    /\ scramble = <<>>
    /\ calls = <<>>
    /\ Len(cube_str) = 54
    /\ Cardinality({cube_str[k] : k \in 1..54}) = 54
    /\ heap.a # <<>>

\* C12: the cube constructed from the solved reference string, nine equal
\* stickers on each of six faces, is solved before any move is made.
C12_SolvedStringIsSolved ==
    (pc = "scramble" /\ scramble = <<>> /\ moves = <<>>) =>
        /\ cube = CubeFromStr(SOLVED_CUBE_STR)
        /\ IsSolved(cube)

\* The cube constructed from the reference string, six colours of nine
\* stickers each, with no move made.
C12_Witness ==
    /\ pc = "scramble"
    /\ scramble = <<>>
    /\ moves = <<>>
    /\ cube_str = SOLVED_CUBE_STR
    /\ \A x \in {"O", "Y", "W", "G", "B", "R"} :
          Cardinality({k \in 1..54 : cube_str[k] = x}) = 9
    /\ IsSolved(cube)

\* C13: from the current cube, each of the whole-cube rotations X, Xi, Y,
\* Yi, Z, Zi gives a cube that is solved exactly if the current cube is.
C13_RotationsKeepSolved ==
    \A m \in Rots : IsSolved(ApplyMove(cube, m)) <=> IsSolved(cube)

\* A solved cube at the end of a solve, which every whole-cube rotation
\* changes piece by piece and in its colour list.
C13_Witness ==
    /\ pc = "solved"
    /\ scramble # <<>>
    /\ moves # <<>>
    /\ IsSolved(cube)
    /\ \A m \in Rots : /\ ApplyMove(cube, m) # cube
                       /\ ~CubeEq(ApplyMove(cube, m), cube)

\* C14: a call of sequence whose tokens are all among the 24 move names
\* returns normally, and after it the cube is the cube before it with the
\* named moves applied one after another in the order given; a call with a
\* token that is not one of the 24 move names fails with a lookup error
\* (AttributeError).
C14_SequenceInOrderOrLookupError ==
    /\ \A n \in 1..Len(calls) :
          calls[n].op = "sequence" =>
             IF \A k \in 1..Len(calls[n].tokens) : calls[n].tokens[k] \in MoveNames
             THEN calls[n].st = "ok"
             ELSE calls[n].st = "attr"
    /\ (Len(calls) = 1 /\ calls[1].op = "sequence" /\ calls[1].st = "ok") =>
          LET after[n \in 0..Len(calls[1].tokens)] ==
                  IF n = 0 THEN cube ELSE ApplyMove(after[n - 1], calls[1].tokens[n])
          IN  PiecesOf(heap, heap.a) = after[Len(calls[1].tokens)]

\* C15: optimize_moves of three times the same move name is the list of
\* the one inverse of that name, and optimize_moves of a move name followed
\* by its inverse is the empty list, for each of the 24 move names.
C15_TripleAndPair ==
    pc = "optimised_list" =>
        /\ (Len(moves) = 3 /\ moves[1] = moves[2] /\ moves[2] = moves[3]) =>
              optimised = <<Invert(moves[1])>>
        /\ (Len(moves) = 2 /\ moves[2] = Invert(moves[1])) => optimised = <<>>
        /\ moves = <<"R", "R", "R">> => optimised = <<"Ri">>
        /\ moves = <<"R", "Ri">> => optimised = <<>>

\* optimize_moves has been called on [R, R, R].
C15_Witness ==
    /\ pc = "optimised_list"
    /\ moves = <<"R", "R", "R">>
    /\ optimised = <<"Ri">>

\* C16: the list optimize_moves returns is never longer than the list it
\* was given: on any list of move names, on the moves a Solver recorded, and
\* on a call on its own result.
C16_NeverLonger ==
    /\ pc \in {"optimised_list", "replayed", "reoptimised", "optimised", "verified"} =>
          Len(optimised) <= Len(moves)
    /\ pc = "reoptimised" => Len(reoptimised) <= Len(optimised)

\* optimize_moves has rewritten the moves between a whole-cube rotation and
\* its inverse and returned a list that is two moves shorter.
C16_Witness ==
    /\ pc = "optimised_list"
    /\ Len(moves) = 5
    /\ moves[1] \in Rots
    /\ moves[5] = Invert(moves[1])
    /\ Len(optimised) = 3
    /\ optimised # SubSeq(moves, 2, 4)

\* C17: for each of the six unit axes the face of the current cube has
\* exactly 9 pieces, the pieces of the layer on that side of the cube, which
\* is the length is_solved asserts for each face.
C17_FaceHasNinePieces ==
    \A axis \in {RIGHT, LEFT, UP, DOWN, FRONT, BACK} :
        /\ Cardinality(FaceOf(cube, axis)) = 9
        /\ FaceOf(cube, axis)
              = {k \in 1..Len(cube) : \E i \in 1..3 : axis[i] # 0 /\ cube[k].pos[i] = axis[i]}

\* A cube late in a solve, each face of which holds other pieces than the
\* ones it was constructed with.
C17_Witness ==
    /\ pc = "last_layer_corners_orientation"
    /\ moves # <<>>
    /\ \A axis \in {RIGHT, LEFT, UP, DOWN, FRONT, BACK} :
          FaceOf(cube, axis) # FaceOf(CubeFromStr(cube_str), axis)

\* C18 as stated: for each of the three planes the slice of the current
\* cube has 9 pieces, the pieces whose coordinate on the plane's zero axis
\* is 0.
C18_SliceHasNinePieces ==
    \A s \in {<<PointAdd(Y_AXIS, Z_AXIS), 1>>, <<PointAdd(X_AXIS, Z_AXIS), 2>>,
              <<PointAdd(X_AXIS, Y_AXIS), 3>>} :
        /\ Cardinality(SliceOf(cube, s[1])) = 9
        /\ SliceOf(cube, s[1]) = {k \in 1..Len(cube) : cube[k].pos[s[2]] = 0}

\* C18 amended: for each of the three planes the slice of the current cube
\* has 8 pieces, the four centres and the four edges whose coordinate on the
\* plane's zero axis is 0 (no piece is at the origin).
C18_SliceHasEightPieces ==
    \A s \in {<<PointAdd(Y_AXIS, Z_AXIS), 1>>, <<PointAdd(X_AXIS, Z_AXIS), 2>>,
              <<PointAdd(X_AXIS, Y_AXIS), 3>>} :
        /\ Cardinality(SliceOf(cube, s[1])) = 8
        /\ SliceOf(cube, s[1]) = {k \in 1..Len(cube) : cube[k].pos[s[2]] = 0}
        /\ Cardinality({k \in SliceOf(cube, s[1]) : cube[k].type = FACE}) = 4
        /\ Cardinality({k \in SliceOf(cube, s[1]) : cube[k].type = EDGE}) = 4

\* A cube in the middle of a solve, each slice of which holds other pieces
\* than the ones it was constructed with.
C18_Witness ==
    /\ pc = "second_layer"
    /\ moves # <<>>
    /\ \A plane \in {PointAdd(Y_AXIS, Z_AXIS), PointAdd(X_AXIS, Z_AXIS),
                     PointAdd(X_AXIS, Y_AXIS)} :
          SliceOf(cube, plane) # SliceOf(CubeFromStr(cube_str), plane)

C20_CopyIsEqualAndDeep ==
    /\ [](heap.b # <<>> =>
            /\ \A k \in 1..Len(heap.a) : \A h \in 1..Len(heap.b) :
                  /\ heap.a[k] # heap.b[h]
                  /\ heap.pieces[heap.a[k]].colors # heap.pieces[heap.b[h]].colors
            /\ calls[Len(calls)].op = "copy" =>
                  CubeEq(PiecesOf(heap, heap.b), PiecesOf(heap, heap.a)))
    /\ [][(calls' # calls /\ calls'[Len(calls')].op = "sequence") =>
            (/\ PiecesOf(heap', heap'[IF calls'[Len(calls')].on = "a" THEN "b" ELSE "a"])
                   = PiecesOf(heap, heap[IF calls'[Len(calls')].on = "a" THEN "b" ELSE "a"])
             /\ PiecesOf(heap', heap'[calls'[Len(calls')].on])
                   = SequenceCall(PiecesOf(heap, heap[calls'[Len(calls')].on]),
                                  calls'[Len(calls')].tokens).cube)]_vars

\* A cube of 54 different stickers was copied, then moves were run on the
\* cube and other moves on its copy: each differs from the cube that was
\* copied, and they differ from one another.
C20_Witness ==
    /\ cube_str = DISTINCT_CUBE_STR
    /\ Len(calls) = 3
    /\ calls[1].op = "copy"
    /\ calls[2].on = "a"
    /\ calls[3].on = "b"
    /\ calls[2].st = "ok"
    /\ calls[3].st = "ok"
    /\ PiecesOf(heap, heap.a) # cube
    /\ PiecesOf(heap, heap.b) # cube
    /\ ~CubeEq(PiecesOf(heap, heap.a), PiecesOf(heap, heap.b))

\* C21: construction does not count whitespace: a string with exactly 54
\* characters that are not whitespace gives the cube of those 54 stickers,
\* and every other string is rejected with an AssertionError and no cube
\* is made.
C21_WhitespaceIgnoredAndLengthChecked ==
    LET Sticker(x) == x \notin {" ", "\t", "\n", "\r", "\f"}
        stickers == SelectSeq(cube_str, Sticker)
    IN  pc # "construct" =>
            IF Len(stickers) = 54
            THEN /\ pc = "constructed"
                 /\ heap.a # <<>>
                 /\ calls = <<>> =>
                        PiecesOf(heap, heap.a)
                            = CubeSequence(CubeFromStr(stickers), scramble)
            ELSE /\ pc = "raised"
                 /\ st = "assert"
                 /\ heap.pieces = <<>>
                 /\ heap.a = <<>>

\* A string of 54 characters rejected because one of them is a space.
C21_Witness ==
    /\ pc = "raised"
    /\ st = "assert"
    /\ Len(cube_str) = 54
    /\ \E k \in 1..54 : cube_str[k] = " "
    /\ heap.a = <<>>

\* The colour of the centre of the face that lies on side s of axis a.
C22_FaceColour(c, a, s) ==
    LET k == CHOOSE k \in 1..NumPieces : c[k].type = FACE /\ c[k].pos[a] = s
    IN  c[k].colors[a]

\* Piece k is placed and oriented: each of its stickers shows the colour of
\* the centre of the face it lies on.
C22_Home(c, k) ==
    \A a \in 1..3 : c[k].pos[a] # 0 => c[k].colors[a] = C22_FaceColour(c, a, c[k].pos[a])

C22_Carries(c, k, col) == \E a \in 1..3 : c[k].colors[a] = col

\* The goal of phase n of Solver.solve on the cube c, the first layer being
\* the layer of the front colour, and the last layer that of the back
\* colour, of the cube that solve() started on.
C22_Goal(c, n) ==
    LET first == front_color(StartCube)
        last == back_color(StartCube)
        Edges == {k \in 1..NumPieces : c[k].type = EDGE}
        Corners == {k \in 1..NumPieces : c[k].type = CORNER}
    IN  CASE n = 1 -> \A k \in Edges : C22_Carries(c, k, first) => C22_Home(c, k)
          [] n = 2 -> \A k \in Corners : C22_Carries(c, k, first) => C22_Home(c, k)
          [] n = 3 -> \A k \in Edges :
                         (~C22_Carries(c, k, first) /\ ~C22_Carries(c, k, last))
                             => C22_Home(c, k)
          [] n = 4 -> \A k \in Edges :
                         C22_Carries(c, k, last) =>
                             \E a \in 1..3 :
                                 /\ c[k].pos[a] # 0
                                 /\ c[k].colors[a] = last
                                 /\ C22_FaceColour(c, a, c[k].pos[a]) = last
          [] n = 5 -> \A k \in Corners :
                         C22_Carries(c, k, last) =>
                             {c[k].colors[a] : a \in 1..3}
                                 = {C22_FaceColour(c, a, c[k].pos[a]) : a \in 1..3}
          [] n = 6 -> \A k \in Corners : C22_Carries(c, k, last) => C22_Home(c, k)
          [] n = 7 -> IsSolved(c) /\ \A k \in 1..NumPieces : C22_Home(c, k)

\* The number of phases of Solver.solve that have returned.
C22_PhasesDone ==
    CASE pc = "cross_corners" -> 1
      [] pc = "second_layer" -> 2
      [] pc = "back_face_edges" -> 3
      [] pc = "last_layer_corners_position" -> 4
      [] pc = "last_layer_corners_orientation" -> 5
      [] pc = "last_layer_edges" -> 6
      [] pc \in {"solved", "optimised", "verified"} -> 7
      [] OTHER -> 0

\* C22: when a phase of Solver.solve has returned, its goal and the goals
\* of all the phases before it hold: the first-layer edges, then the
\* first-layer corners, then the middle-layer edges are placed and
\* oriented, then the last-layer edges show the last-layer colour on the
\* last-layer face, then the last-layer corners are in their positions,
\* then they are oriented, and then the cube is solved.
C22_PhaseGoalsCumulative ==
    \A n \in 1..7 : n <= C22_PhasesDone => C22_Goal(cube, n)

\* C23: while Solver.solve runs on a cube reached from the solved cube no
\* assert of the solver fails, no "BUG" exception is raised and no guarded
\* loop reaches the iteration ceiling.
C23_NoInternalCheckFails ==
    /\ st \notin {"assert", "bug", "stuck"}
    /\ pc = "raised" => st \in {"attr", "type"}

\* solve() has returned after more than a hundred moves on a scrambled
\* cube that was not solved: the asserts of the middle layer and of the
\* corner positions were passed and the guarded loops were left.
C23_Witness ==
    /\ pc = "solved"
    /\ Len(scramble) = 5
    /\ ~IsSolved(StartCube)
    /\ Len(moves) > 100
    /\ st = "ok"

\* C28: when Solver.solve has returned, each of the six face centres is at
\* the position it had when solve() started, and a cube scrambled from the
\* reference string by face turns only has the reference string as its
\* net-order colour list.
C28_NoNetRotation ==
    pc = "solved" =>
        /\ \A k \in 1..NumPieces :
              cube[k].type = FACE => cube[k].pos = StartCube[k].pos
        /\ (\A n \in 1..Len(scramble) :
               scramble[n] \in {"L", "Li", "R", "Ri", "U", "Ui", "D", "Di",
                                "F", "Fi", "B", "Bi"})
              => ColorList(cube) = cube_str

\* The six canonical matrices, each with the two axes of its rotation
\* plane, the axis it leaves alone, and the image of a point <<x, y, z>>
\* under it written out.
C24_Rotations ==
    {[m |-> ROT_XY_CW, i |-> 1, j |-> 2, fixed |-> 3, to |-> <<2, -1, 3>>],
     [m |-> ROT_XY_CC, i |-> 1, j |-> 2, fixed |-> 3, to |-> <<-2, 1, 3>>],
     [m |-> ROT_XZ_CW, i |-> 1, j |-> 3, fixed |-> 2, to |-> <<-3, 2, 1>>],
     [m |-> ROT_XZ_CC, i |-> 1, j |-> 3, fixed |-> 2, to |-> <<3, 2, -1>>],
     [m |-> ROT_YZ_CW, i |-> 2, j |-> 3, fixed |-> 1, to |-> <<1, 3, -2>>],
     [m |-> ROT_YZ_CC, i |-> 2, j |-> 3, fixed |-> 1, to |-> <<1, -3, 2>>]}

\* The point whose coordinate n is pos[to[n]], or -pos[-to[n]] when to[n]
\* is negative.
C24_Image(pos, to) ==
    [n \in 1..3 |-> IF to[n] > 0 THEN pos[to[n]] ELSE 0 - pos[0 - to[n]]]

\* C24: Piece.rotate with any of the six canonical matrices, on the piece
\* at any of the 26 positions of the current cube, moves the piece to the
\* matrix times its position, swaps the colours of the two axis slots of
\* the rotation plane and leaves the third slot alone (also when only one
\* coordinate of the piece changes); a piece whose position does not
\* change keeps its colours.
C24_RotateKeepsStickersOnFaces ==
    /\ {cube[k].pos : k \in 1..NumPieces}
          = {p \in [1..3 -> {-1, 0, 1}] : p # <<0, 0, 0>>}
    /\ \A k \in 1..NumPieces : \A r \in C24_Rotations :
          LET before == cube[k]
              after == Rotate(before, r.m)
          IN  /\ after.pos = C24_Image(before.pos, r.to)
              /\ after.colors[r.i] = before.colors[r.j]
              /\ after.colors[r.j] = before.colors[r.i]
              /\ after.colors[r.fixed] = before.colors[r.fixed]
              /\ after.pos = before.pos => after.colors = before.colors
              /\ after.type = before.type

\* In a cube in the middle of a solve, a corner of which a rotation changes
\* one coordinate only, and whose colours in the two slots of the rotation
\* plane then swap.
C24_Witness ==
    /\ pc = "second_layer"
    /\ ~IsSolved(cube)
    /\ \E k \in 1..NumPieces : \E r \in C24_Rotations :
          /\ cube[k].type = CORNER
          /\ PointCount(PointSub(C24_Image(cube[k].pos, r.to), cube[k].pos), 0) = 2
          /\ Rotate(cube[k], r.m).colors # cube[k].colors
          /\ Rotate(cube[k], r.m).colors[r.i] = cube[k].colors[r.j]

\* C25: for every whole-cube rotation r and every move name m, turning the
\* current cube by r, then m, then the inverse of r gives the cube that the
\* one move _unrotate(r, [m]) gives (the colour lists are compared unless
\* the two cubes agree piece by piece).
C25_RelabellingIsConjugation ==
    \A r \in {"X", "Xi", "Y", "Yi", "Z", "Zi"} : \A m \in MoveNames :
        /\ Len(Unrotate(r, <<m>>)) = 1
        /\ Unrotate(r, <<m>>)[1] \in MoveNames
        /\ \/ CubeSequence(cube, <<r, m, Invert(r)>>)
                 = CubeSequence(cube, Unrotate(r, <<m>>))
           \/ CubeEq(CubeSequence(cube, <<r, m, Invert(r)>>),
                     CubeSequence(cube, Unrotate(r, <<m>>)))

\* An unsolved cube in the middle of a solve on which the relabelled move
\* is another move than the one relabelled, and does not give the same
\* cube as that one.
C25_Witness ==
    /\ pc = "cross_corners"
    /\ ~IsSolved(cube)
    /\ \E r \in {"X", "Xi", "Y", "Yi", "Z", "Zi"} : \E m \in MoveNames :
          /\ Unrotate(r, <<m>>) # <<m>>
          /\ CubeSequence(cube, <<r, m, Invert(r)>>) # ApplyMove(cube, m)
          /\ CubeSequence(cube, <<r, m, Invert(r)>>)
                = CubeSequence(cube, Unrotate(r, <<m>>))

\* No three moves in a row of the list are the same move.
C26_NoTriple(l) ==
    \A k \in 1..(Len(l) - 2) : ~(l[k] = l[k + 1] /\ l[k + 1] = l[k + 2])

\* No move of the list is followed at once by its inverse.
C26_NoDoUndo(l) == \A k \in 1..(Len(l) - 1) : l[k + 1] # Invert(l[k])

\* No whole-cube rotation of the list has its inverse anywhere after it.
C26_NoRotationPair(l) ==
    \A k \in 1..Len(l) :
        l[k] \in {"X", "Xi", "Y", "Yi", "Z", "Zi"} =>
            \A j \in (k + 1)..Len(l) : l[j] # Invert(l[k])

\* C26: each of the three rewrite rules ends, on the list given to
\* optimize_moves and on the list the rule before it left, and its result
\* is a fixpoint of it: apply_repeat_three_optimization leaves no three
\* equal moves in a row, apply_do_undo_optimization leaves no move followed
\* by its inverse, and apply_no_full_cube_rotation_optimization leaves no
\* whole-cube rotation with its inverse later in the list.
C26_EachRuleReachesItsFixpoint ==
    pc = "optimised_list" =>
        /\ C26_NoTriple(ApplyRepeatThree(moves))
        /\ C26_NoDoUndo(ApplyDoUndo(moves))
        /\ C26_NoRotationPair(ApplyNoFullCubeRotation(moves))
        /\ C26_NoTriple(ApplyRepeatThree(ApplyNoFullCubeRotation(moves)))
        /\ C26_NoDoUndo(ApplyDoUndo(ApplyRepeatThree(ApplyNoFullCubeRotation(moves))))
        /\ ApplyRepeatThree(ApplyRepeatThree(moves)) = ApplyRepeatThree(moves)
        /\ ApplyDoUndo(ApplyDoUndo(moves)) = ApplyDoUndo(moves)
        /\ ApplyNoFullCubeRotation(ApplyNoFullCubeRotation(moves))
              = ApplyNoFullCubeRotation(moves)

\* optimize_moves has been called on a list in which two rotation pairs
\* are nested, so that one run of the while loop leaves a pair and the rule
\* has to run again on its own result.
C26_Witness ==
    /\ pc = "optimised_list"
    /\ moves = <<"X", "X", "Xi", "Xi", "R">>
    /\ ApplyNoFullCubeRotation(moves) = <<"R">>
    /\ ~C26_NoRotationPair(moves)

\* A logged call of sequence() with a token that is neither a move name
\* nor the name of another attribute of the Cube.
C27_NamesNothing(call) ==
    /\ call.op = "sequence"
    /\ \E k \in 1..Len(call.tokens) :
          call.tokens[k] \notin
              MoveNames \cup {"is_solved", "flat_str", "colors", "find_piece", "pieces",
                              "faces", "edges", "corners", "sequence", "get_piece"}

\* C27: a call of sequence() with a token that names nothing on the cube
\* raises AttributeError and leaves every piece of the cube, and of its
\* copy, as it was before the call, also when move names come before the
\* token in the string.
C27_BadTokenAppliesNothing ==
    /\ [](\A n \in 1..Len(calls) : C27_NamesNothing(calls[n]) => calls[n].st = "attr")
    /\ [][(Len(calls') = Len(calls) + 1 /\ C27_NamesNothing(calls'[Len(calls')]))
             => (/\ heap' = heap
                 /\ PiecesOf(heap', heap'.a) = PiecesOf(heap, heap.a)
                 /\ PiecesOf(heap', heap'.b) = PiecesOf(heap, heap.b))]_vars

\* sequence("R Q") has raised AttributeError on the cube just built from a
\* string of 54 different stickers, and the cube is as it was built, while
\* R alone changes it.
C27_Witness ==
    /\ pc = "constructed"
    /\ Len(calls) = 1
    /\ calls[1] = [op |-> "sequence", on |-> "a", tokens |-> <<"R", "Q">>, st |-> "attr"]
    /\ cube_str = DISTINCT_CUBE_STR
    /\ PiecesOf(heap, heap.a) = cube
    /\ ApplyMove(cube, "R") # cube

\* The layer a face turn or a slice turn acts on: the coordinate axis a and
\* the value v of that coordinate on the layer.
C29_Layer(m) ==
    CASE m \in {"L", "Li"} -> [a |-> 1, v |-> -1]
      [] m \in {"M", "Mi"} -> [a |-> 1, v |-> 0]
      [] m \in {"R", "Ri"} -> [a |-> 1, v |-> 1]
      [] m \in {"D", "Di"} -> [a |-> 2, v |-> -1]
      [] m \in {"E", "Ei"} -> [a |-> 2, v |-> 0]
      [] m \in {"U", "Ui"} -> [a |-> 2, v |-> 1]
      [] m \in {"B", "Bi"} -> [a |-> 3, v |-> -1]
      [] m \in {"S", "Si"} -> [a |-> 3, v |-> 0]
      [] m \in {"F", "Fi"} -> [a |-> 3, v |-> 1]

\* The pieces of the cube c that lie on the layer of the move m.
C29_On(c, m) == {k \in 1..NumPieces : c[k].pos[C29_Layer(m).a] = C29_Layer(m).v}

\* The axis a whole-cube rotation turns about.
C29_Axis(m) ==
    CASE m \in {"X", "Xi"} -> 1
      [] m \in {"Y", "Yi"} -> 2
      [] m \in {"Z", "Zi"} -> 3

\* C29: a face turn of the current cube changes the position or the colour
\* slots of pieces among the 9 of its face only, and these 9 are the pieces
\* of the face after the turn; a slice turn changes pieces of its slice
\* only, which stay the pieces of the slice; a whole-cube rotation moves
\* every piece that is not a centre on its axis, 24 pieces, and turns the
\* two centres on the axis in place.
C29_MoveFrame ==
    /\ \A m \in {"L", "Li", "R", "Ri", "U", "Ui", "D", "Di", "F", "Fi", "B", "Bi",
                 "M", "Mi", "E", "Ei", "S", "Si"} :
          /\ \A k \in 1..NumPieces :
                k \notin C29_On(cube, m) => ApplyMove(cube, m)[k] = cube[k]
          /\ C29_On(ApplyMove(cube, m), m) = C29_On(cube, m)
          /\ C29_Layer(m).v # 0 => Cardinality(C29_On(cube, m)) = 9
    /\ \A m \in {"X", "Xi", "Y", "Yi", "Z", "Zi"} :
          /\ \A k \in 1..NumPieces :
                /\ ApplyMove(cube, m)[k].pos[C29_Axis(m)] = cube[k].pos[C29_Axis(m)]
                /\ (ApplyMove(cube, m)[k].pos = cube[k].pos) <=>
                      (\A a \in 1..3 : a # C29_Axis(m) => cube[k].pos[a] = 0)
                /\ ApplyMove(cube, m)[k].pos = cube[k].pos =>
                      ApplyMove(cube, m)[k].colors = cube[k].colors
          /\ Cardinality({k \in 1..NumPieces :
                             ApplyMove(cube, m)[k].pos # cube[k].pos}) = 24

\* An unsolved cube in the middle of a solve on which the face turn R
\* changes the eight pieces around the centre of its face and no other.
C29_Witness ==
    /\ pc = "cross_corners"
    /\ ~IsSolved(cube)
    /\ {k \in 1..NumPieces : ApplyMove(cube, "R")[k] # cube[k]}
          = {k \in 1..NumPieces : cube[k].pos[1] = 1 /\ cube[k].type # FACE}
    /\ Cardinality({k \in 1..NumPieces : ApplyMove(cube, "M")[k] # cube[k]}) = 8

\* C30: whatever moves have been made since the cube was constructed, each
\* piece carries the colours it was constructed with, as many stickers as
\* then, and the cube has as many stickers of each colour as its sticker
\* string, 54 in all.
C30_PiecesKeepTheirColours ==
    LET built == CubeFromStr(cube_str)
        Stickers(c) == {ka \in (1..NumPieces) \X (1..3) : c[ka[1]].colors[ka[2]] # NoColor}
    IN  /\ \A k \in 1..NumPieces :
              /\ {cube[k].colors[a] : a \in 1..3} = {built[k].colors[a] : a \in 1..3}
              /\ \A x \in {built[k].colors[a] : a \in 1..3} :
                    Cardinality({a \in 1..3 : cube[k].colors[a] = x})
                        = Cardinality({a \in 1..3 : built[k].colors[a] = x})
        /\ Cardinality(Stickers(cube)) = 54
        /\ \A x \in {cube_str[n] : n \in 1..Len(cube_str)} :
              Cardinality({ka \in Stickers(cube) : cube[ka[1]].colors[ka[2]] = x})
                  = Cardinality({n \in 1..Len(cube_str) : cube_str[n] = x})
        /\ {cube[ka[1]].colors[ka[2]] : ka \in Stickers(cube)}
              = {cube_str[n] : n \in 1..Len(cube_str)}

\* A cube late in a solve, after more than a hundred moves, on which at
\* least 20 pieces hold their colours in other slots than at construction.
C30_Witness ==
    /\ pc = "last_layer_edges"
    /\ Len(moves) > 100
    /\ Cardinality({k \in 1..NumPieces :
                       cube[k].colors # CubeFromStr(cube_str)[k].colors}) >= 20

\* C31: the list optimize_moves returns for a list of move names holds
\* move names only, on any list, on the moves a Solver recorded and on a
\* call on its own result, so that sequence() on it raises nothing.
C31_OutputIsMoveNames ==
    /\ pc \in {"optimised_list", "replayed", "reoptimised", "optimised", "verified"} =>
          \A k \in 1..Len(optimised) : optimised[k] \in MoveNames
    /\ pc = "reoptimised" => \A k \in 1..Len(reoptimised) : reoptimised[k] \in MoveNames
    /\ pc = "optimised_list" => SequenceCall(cube, optimised).st = "ok"

\* optimize_moves has been called on [X, Ui, Xi] and has returned the one
\* move that is the inverse of the image of the inverse of Ui.
C31_Witness ==
    /\ pc = "optimised_list"
    /\ moves = <<"X", "Ui", "Xi">>
    /\ optimised = <<"Fi">>

\* C32: M turns its slice with the matrix of L, E with that of D and S with
\* that of F, and on the current cube X gives the cube that R Mi Li give,
\* Y the cube that U Ei Di give, and Z the cube that F S Bi give, piece by
\* piece.
C32_RotationIsThreeLayerTurns ==
    /\ MoveDef("M")[3] = MoveDef("L")[3]
    /\ MoveDef("E")[3] = MoveDef("D")[3]
    /\ MoveDef("S")[3] = MoveDef("F")[3]
    /\ ApplyMove(cube, "X") = CubeSequence(cube, <<"R", "Mi", "Li">>)
    /\ ApplyMove(cube, "Y") = CubeSequence(cube, <<"U", "Ei", "Di">>)
    /\ ApplyMove(cube, "Z") = CubeSequence(cube, <<"F", "S", "Bi">>)

\* An unsolved cube in the middle of a solve on which F, F S and F S Bi
\* give three different cubes, none of them the cube itself, the last one
\* being the cube that Z gives.
C32_Witness ==
    /\ pc = "last_layer_corners_position"
    /\ ~IsSolved(cube)
    /\ ApplyMove(cube, "F") # cube
    /\ CubeSequence(cube, <<"F", "S">>) # ApplyMove(cube, "F")
    /\ CubeSequence(cube, <<"F", "S", "Bi">>) # CubeSequence(cube, <<"F", "S">>)
    /\ CubeSequence(cube, <<"F", "S", "Bi">>) = ApplyMove(cube, "Z")
    /\ ~CubeEq(ApplyMove(cube, "Z"), cube)

\* The step of the module docstring of solve.py (lines 8-15) that the
\* phase method about to be called, or just called, belongs to; step 5 is
\* the two methods for the last-layer corners.  0 before solve(), 7 after.
C33_Step(at) ==
    CASE at = "cross" -> 1
      [] at = "cross_corners" -> 2
      [] at = "second_layer" -> 3
      [] at = "back_face_edges" -> 4
      [] at \in {"last_layer_corners_position", "last_layer_corners_orientation"} -> 5
      [] at = "last_layer_edges" -> 6
      [] at \in {"solved", "optimised", "verified"} -> 7
      [] OTHER -> 0

\* The calls of Solver.solve in the order of its lines 48-66, with the
\* places of control before and after them.
C33_Order ==
    <<"scramble", "cross", "cross_corners", "second_layer", "back_face_edges",
      "last_layer_corners_position", "last_layer_corners_orientation",
      "last_layer_edges", "solved", "optimised", "verified">>

\* C33: in every run of solve() control passes through the phase methods in
\* the one order of Solver.solve, entering each once and none again after a
\* later one has started, so that the six steps of the solver follow one
\* another in order; no phase method raises or fails to return, so no run
\* ends before the last of them; and moves are recorded by the phase
\* methods only.
C33_PhasesInOrderOnce ==
    /\ [](st = "ok" /\ pc \in {C33_Order[n] : n \in 1..Len(C33_Order)})
    /\ [][pc' # pc =>
             \E n \in 1..(Len(C33_Order) - 1) :
                 pc = C33_Order[n] /\ pc' = C33_Order[n + 1]]_vars
    /\ [][C33_Step(pc') = C33_Step(pc) \/ C33_Step(pc') = C33_Step(pc) + 1]_vars
    /\ [][moves' # moves => (pc' # pc /\ C33_Step(pc) \in 0..6)]_vars
    /\ [][(C33_Step(pc) \in 1..6) => pc' # pc]_vars

\* solve() has returned on a cube scrambled by one move, all phase methods
\* having been called, with more than fifty moves recorded.
C33_Witness ==
    /\ pc = "solved"
    /\ Len(scramble) = 1
    /\ Len(moves) > 50
    /\ st = "ok"

====
